---- MODULE Spec2Model ----
(***************************************************************************)
(* Model of OrthancFramework/Resources/CheckOrthancFrameworkSymbols.py:    *)
(* the traversal of a libclang declaration tree that reports the exported  *)
(* declarations of the Orthanc framework whose shape can break the ABI.    *)
(*                                                                         *)
(* The declaration tree (the translation unit parsed by libclang) is the   *)
(* input of a run.  A cursor is a record; texts that the script indexes,   *)
(* joins or sorts (spellings, file names) are sequences of one-character   *)
(* strings, texts that it only compares for equality are strings.          *)
(***************************************************************************)
EXTENDS Integers, Sequences, FiniteSets, TLC

(***************************************************************************)
(* Texts                                                                   *)
(***************************************************************************)

\* The characters of the texts of a run, by runs of consecutive codes.
Digits == << "0", "1", "2", "3", "4", "5", "6", "7", "8", "9" >>
Upper ==
  << "A", "B", "C", "D", "E", "F", "G", "H", "I", "J", "K", "L", "M",
     "N", "O", "P", "Q", "R", "S", "T", "U", "V", "W", "X", "Y", "Z" >>
Lower ==
  << "a", "b", "c", "d", "e", "f", "g", "h", "i", "j", "k", "l", "m",
     "n", "o", "p", "q", "r", "s", "t", "u", "v", "w", "x", "y", "z" >>

IndexIn(seq, c) == CHOOSE k \in 1..Len(seq) : seq[k] = c
Occurs(seq, c) == \E k \in 1..Len(seq) : seq[k] = c

\* ord(c)
Ord(c) ==
  IF Occurs(Digits, c) THEN 47 + IndexIn(Digits, c)
  ELSE IF Occurs(Upper, c) THEN 64 + IndexIn(Upper, c)
  ELSE IF Occurs(Lower, c) THEN 96 + IndexIn(Lower, c)
  ELSE CASE c = "." -> 46
         [] c = "/" -> 47
         [] c = ":" -> 58
         [] c = "_" -> 95
         [] c = "~" -> 126

\* str.isupper() on one character
IsUpper(c) == Ord(c) >= 65 /\ Ord(c) <= 90

\* Python comparison (less than) of two texts: lexicographic by character code
RECURSIVE TextLess(_, _)
TextLess(s, t) ==
  IF t = << >> THEN FALSE
  ELSE IF s = << >> THEN TRUE
  ELSE IF Head(s) /= Head(t) THEN Ord(Head(s)) < Ord(Head(t))
  ELSE TextLess(Tail(s), Tail(t))

\* sep.join(parts)
RECURSIVE JoinWith(_, _)
JoinWith(sep, parts) ==
  IF parts = << >> THEN << >>
  ELSE IF Len(parts) = 1 THEN parts[1]
  ELSE parts[1] \o sep \o JoinWith(sep, Tail(parts))

\* the fqn joined with a double colon
JoinFqn(fqn) == JoinWith(<<":", ":">>, fqn)

\* text.split(sep) for a one-character separator
RECURSIVE SplitAt(_, _, _)
SplitAt(text, sep, cur) ==
  IF text = << >> THEN << cur >>
  ELSE IF Head(text) = sep THEN << cur >> \o SplitAt(Tail(text), sep, << >>)
  ELSE SplitAt(Tail(text), sep, Append(cur, Head(text)))

Split(text, sep) == SplitAt(text, sep, << >>)

\* sorted(list): insertion of each element before the first greater one
RECURSIVE InsertSorted(_, _)
InsertSorted(x, sorted) ==
  IF sorted = << >> THEN << x >>
  ELSE IF TextLess(x, Head(sorted)) THEN << x >> \o sorted
  ELSE << Head(sorted) >> \o InsertSorted(x, Tail(sorted))

RECURSIVE Sorted(_)
Sorted(list) ==
  IF list = << >> THEN << >>
  ELSE InsertSorted(list[Len(list)], Sorted(SubSeq(list, 1, Len(list) - 1)))

\* set(list)
SeqToSet(list) == { list[k] : k \in 1..Len(list) }

\* list(S) of a set of strings: the elements in the order of their hashes,
\* which the interpreter draws anew for every process
Orderings(S) ==
  { list \in [ 1..Cardinality(S) -> S ] :
      \A j, k \in 1..Cardinality(S) : j /= k => list[j] /= list[k] }

RECURSIVE SetToSeq(_)
SetToSeq(S) ==
  IF S = {} THEN << >>
  ELSE LET x == CHOOSE y \in S : TRUE IN << x >> \o SetToSeq(S \ {x})

\* os.path.normpath on a POSIX path
Dot == << "." >>
DotDot == << ".", "." >>

RECURSIVE NormComps(_, _, _)
NormComps(comps, initialSlashes, newComps) ==
  IF comps = << >> THEN newComps
  ELSE LET comp == Head(comps)
           rest == Tail(comps)
       IN IF comp = << >> \/ comp = Dot
          THEN NormComps(rest, initialSlashes, newComps)
          ELSE IF \/ comp /= DotDot
                  \/ (initialSlashes = 0 /\ newComps = << >>)
                  \/ (newComps /= << >> /\ newComps[Len(newComps)] = DotDot)
          THEN NormComps(rest, initialSlashes, Append(newComps, comp))
          ELSE IF newComps /= << >>
          THEN NormComps(rest, initialSlashes, SubSeq(newComps, 1, Len(newComps) - 1))
          ELSE NormComps(rest, initialSlashes, newComps)

StartsWith(text, prefix) ==
  Len(text) >= Len(prefix) /\ SubSeq(text, 1, Len(prefix)) = prefix

NormPath(path) ==
  IF path = << >> THEN Dot
  ELSE LET initialSlashes ==
             IF ~StartsWith(path, <<"/">>) THEN 0
             ELSE IF StartsWith(path, <<"/", "/">>) /\ ~StartsWith(path, <<"/", "/", "/">>)
             THEN 2 ELSE 1
           joined == JoinWith(<<"/">>, NormComps(Split(path, "/"), initialSlashes, << >>))
           result == IF initialSlashes = 2 THEN <<"/", "/">> \o joined
                     ELSE IF initialSlashes = 1 THEN <<"/">> \o joined
                     ELSE joined
       IN IF result = << >> THEN Dot ELSE result

(***************************************************************************)
(* Cursors of the declaration tree                                         *)
(***************************************************************************)

tOrthanc == << "O", "r", "t", "h", "a", "n", "c" >>
tOther == << "O", "t", "h", "e", "r" >>
tInternals == << "I", "n", "t", "e", "r", "n", "a", "l", "s" >>
tWidget == << "W", "i", "d", "g", "e", "t" >>
tIFoo == << "I", "F", "o", "o" >>
tIfoo == << "I", "f", "o", "o" >>
tI == << "I" >>
tX == << "X" >>
tOuter == << "O", "u", "t", "e", "r" >>
tIInner == << "I", "I", "n", "n", "e", "r" >>
tIBad == << "I", "B", "a", "d" >>
tHelper == << "H", "e", "l", "p", "e", "r" >>
tHidden == << "H", "i", "d", "d", "e", "n" >>
tPod == << "P", "o", "d" >>
tIPod == << "I", "P", "o", "d" >>
tFatal == << "F", "a", "t", "a", "l" >>
tFoo == << "F", "o", "o" >>
tBar == << "B", "a", "r" >>
tf == << "f" >>
tg == << "g" >>
tDtor == << "~", "X" >>
tx == << "x" >>
tDefault == << "d", "e", "f", "a", "u", "l", "t" >>
tHiddenVis == << "h", "i", "d", "d", "e", "n" >>
tNoncopyable == << "b", "o", "o", "s", "t", ":", ":", "n", "o", "n", "c", "o", "p", "y", "a", "b", "l", "e" >>
tOtherBase == << "I", "B", "a", "s", "e" >>
FileA == << "/", "s", "/", ".", ".", "/", "A", ".", "h" >>
FileA2 == << "/", "A", ".", "h" >>
FileB == << "/", "s", "/", "B", ".", "h" >>

\* A cursor as the script reads it: kind, spelling, displayname,
\* is_definition(), location.file, access_specifier, is_pure_virtual_method(),
\* is_static_method(), is_virtual_method(), get_children().
Cursor(kind, spelling, children) ==
  [ kind |-> kind, spelling |-> spelling, displayname |-> "",
    is_definition |-> TRUE, file |-> << >>, access |-> "INVALID",
    pure |-> FALSE, static |-> FALSE, virtual |-> FALSE,
    children |-> children ]

\* Every cursor of a declaration lies in the file of the declaration.
RECURSIVE InFile(_, _)
InFile(node, f) ==
  [ node EXCEPT !.file = f,
                !.children = [ k \in 1..Len(node.children) |-> InFile(node.children[k], f) ] ]

Vis(v) == Cursor("VISIBILITY_ATTR", v, << >>)
Acc(a) == [ Cursor("CXX_ACCESS_SPEC_DECL", << >>, << >>) EXCEPT !.access = a ]
Base(name) == Cursor("CXX_BASE_SPECIFIER", name, << >>)
Stmt == Cursor("RETURN_STMT", << >>, << >>)
Body(stmts) == Cursor("COMPOUND_STMT", << >>, stmts)
Parm == Cursor("PARM_DECL", tx, << >>)
TParm == Cursor("TEMPLATE_TYPE_PARAMETER", tx, << >>)

VisDefault == Vis(tDefault)
VisHidden == Vis(tHiddenVis)
AccPublic == Acc("PUBLIC")
AccProtected == Acc("PROTECTED")
AccPrivate == Acc("PRIVATE")
BaseNoncopyable == Base(tNoncopyable)
BaseOther == Base(tOtherBase)

MPure == [ Cursor("CXX_METHOD", tf, << Parm >>) EXCEPT !.pure = TRUE, !.virtual = TRUE ]
MDecl == Cursor("CXX_METHOD", tg, << Parm >>)
MInline == Cursor("CXX_METHOD", tFoo, << Parm, Body(<< Stmt >>) >>)
SDecl == [ Cursor("CXX_METHOD", tg, << Parm >>) EXCEPT !.static = TRUE ]
SInline == [ Cursor("CXX_METHOD", tBar, << Body(<< >>) >>) EXCEPT !.static = TRUE ]
CtorDecl == Cursor("CONSTRUCTOR", tX, << Parm >>)
CtorInline == Cursor("CONSTRUCTOR", tX, << Body(<< >>) >>)
DtorEmpty == [ Cursor("DESTRUCTOR", tDtor, << Body(<< >>) >>) EXCEPT !.virtual = TRUE ]
DtorDecl == [ Cursor("DESTRUCTOR", tDtor, << >>) EXCEPT !.virtual = TRUE ]
DtorBody == [ Cursor("DESTRUCTOR", tDtor, << Body(<< Stmt >>) >>) EXCEPT !.virtual = TRUE ]
DtorPlain == Cursor("DESTRUCTOR", tDtor, << Body(<< >>) >>)
Field == Cursor("FIELD_DECL", tx, << >>)
VarDecl == Cursor("VAR_DECL", tx, << >>)
Typedef == Cursor("TYPEDEF_DECL", tx, << >>)
Enum == Cursor("ENUM_DECL", tx, << >>)
TplInline == Cursor("FUNCTION_TEMPLATE", tBar, << TParm, Body(<< Stmt >>) >>)
TplDecl == Cursor("FUNCTION_TEMPLATE", tBar, << TParm >>)
UsingDecl == Cursor("USING_DECLARATION", tx, << >>)

\* The friend signature the script accepts
WhitelistedFriend == "operator<<(std::ostream &, const Orthanc::DicomTag &)"
OtherFriend == "operator<<(std::ostream &, const Orthanc::Toolbox &)"

FriendFunction(signature) ==
  [ Cursor("FUNCTION_DECL", << >>, << >>) EXCEPT !.displayname = signature ]
FriendOk == Cursor("FRIEND_DECL", << >>, << FriendFunction(WhitelistedFriend) >>)
FriendBad == Cursor("FRIEND_DECL", << >>, << FriendFunction(OtherFriend) >>)
FriendTemplate == Cursor("FRIEND_DECL", << >>, << TParm, FriendFunction(WhitelistedFriend) >>)

Class(kind, name, children) == Cursor(kind, name, children)
Forward(kind, name) == [ Cursor(kind, name, << >>) EXCEPT !.is_definition = FALSE ]

(***************************************************************************)
(* The declaration trees of the runs that are checked                      *)
(***************************************************************************)

\* Longest free sequence of children in the class under scrutiny
MaxChildren == 3
\* Longest sequence of declarations in the Orthanc namespace
MaxDecls == 2
\* Longest sequence of top-level declarations of the translation unit
MaxRoots == 2

SeqsUpTo(S, n) == UNION { [ 1..k -> S ] : k \in 0..n }

IsTypeDefinition(node) ==
  node.kind \in { "CLASS_DECL", "STRUCT_DECL" } /\ node.is_definition

\* C++ defines a type at most once in a scope
DistinctTypes(children) ==
  \A j, k \in 1..Len(children) :
    ( /\ j /= k
      /\ IsTypeDefinition(children[j])
      /\ IsTypeDefinition(children[k]) ) => children[j].spelling /= children[k].spelling

\* Nested classes
NIInner == Class("CLASS_DECL", tIInner, << VisDefault, AccPublic, MPure, DtorEmpty >>)
NHelper == Class("CLASS_DECL", tHelper, << VisDefault, AccPublic, MInline >>)
NIBad == Class("CLASS_DECL", tIBad, << VisDefault, AccPublic, MInline, SInline >>)
NPod == Class("STRUCT_DECL", tPod, << VisDefault, MInline >>)
NHidden == Class("CLASS_DECL", tHidden, << AccPublic, MInline, VarDecl >>)
NFatal == Class("CLASS_DECL", tFatal, << VisDefault, AccPublic, VarDecl >>)
NForward == Forward("CLASS_DECL", tHelper)

AccessSpecifiers == { AccPublic, AccProtected, AccPrivate }

Members ==
  { BaseNoncopyable, BaseOther,
    MPure, MDecl, MInline, SDecl, SInline, CtorDecl, CtorInline,
    DtorEmpty, DtorDecl, DtorBody, DtorPlain,
    Field, VarDecl, Typedef, Enum, TplInline, TplDecl,
    FriendOk, FriendBad, FriendTemplate, UsingDecl,
    NIInner, NHelper, NIBad, NPod, NHidden, NFatal, NForward }

CoreItems ==
  AccessSpecifiers \cup { MPure, MInline, DtorEmpty, VarDecl, UsingDecl, NHelper }

\* One member, in the implicit section or right after an access specifier
SingleBodies ==
  { << m >> : m \in Members } \cup { << a, m >> : a \in AccessSpecifiers, m \in Members }

\* Two members of one public section
PairBodies == { << AccPublic, m1, m2 >> : m1 \in Members, m2 \in Members }

Bodies ==
  { b \in SeqsUpTo(CoreItems, MaxChildren) \cup SingleBodies \cup PairBodies :
      DistinctTypes(b) }

FocusClasses ==
  { InFile(Class("CLASS_DECL", name, << VisDefault >> \o b), FileA) :
      name \in { tWidget, tIFoo }, b \in Bodies }
  \cup
  { InFile(Class("STRUCT_DECL", name, << VisDefault >> \o b), FileA) :
      name \in { tPod, tIPod }, b \in SingleBodies }

\* Declarations of a namespace
DWidget ==
  InFile(Class("CLASS_DECL", tWidget, << VisDefault, AccPublic, MInline, CtorInline >>), FileB)
DIFoo ==
  InFile(Class("CLASS_DECL", tIFoo,
               << VisDefault, BaseNoncopyable, AccPublic, MPure, DtorEmpty >>), FileA)
DOuter ==
  InFile(Class("CLASS_DECL", tOuter, << VisDefault, AccPublic, NIInner, NHelper >>), FileA2)
DForward == InFile(Forward("CLASS_DECL", tWidget), FileA)
DHidden ==
  InFile(Class("CLASS_DECL", tHidden,
               << VisHidden, AccPublic, MInline, NHelper, VarDecl >>), FileA)
DNoAttribute ==
  InFile(Class("STRUCT_DECL", tPod, << UsingDecl, NHelper, FriendBad >>), FileA)
DPod ==
  InFile(Class("STRUCT_DECL", tIPod, << VisDefault, MInline, AccPrivate, CtorInline >>), FileA2)
DIfoo == InFile(Class("CLASS_DECL", tIfoo, << VisDefault, AccPublic, MInline >>), FileA)
DI == InFile(Class("CLASS_DECL", tI, << VisDefault >>), FileA)
DAnonymous == InFile(Class("CLASS_DECL", << >>, << VisDefault >>), FileA)
DX == InFile(Class("CLASS_DECL", tX, << VisDefault, DtorEmpty >>), FileA)
\* An explicit specialisation of a class template is a CLASS_DECL cursor
\* spelled as the template: two specialisations share their spelling
DXOfInt == InFile(Class("CLASS_DECL", tX, << VisDefault, AccPublic, MDecl >>), FileB)
\* A nested namespace, itself of hidden visibility
DNamespace ==
  InFile(Cursor("NAMESPACE", tInternals,
                << VisHidden,
                   Class("CLASS_DECL", tHelper, << VisDefault, AccPublic, DtorBody >>) >>), FileB)
FExportedInline ==
  InFile(Cursor("FUNCTION_DECL", tFoo, << VisDefault, Parm, Body(<< Stmt >>) >>), FileB)
FExportedDecl == InFile(Cursor("FUNCTION_DECL", tBar, << VisDefault, Parm >>), FileB)
FHiddenInline == InFile(Cursor("FUNCTION_DECL", tg, << Parm, Body(<< >>) >>), FileB)
DVariable == InFile(VarDecl, FileB)
DTemplate == InFile(TplInline, FileB)
DTypedef == InFile(Typedef, FileB)

DeclItems ==
  { DWidget, DIFoo, DOuter, DForward, DHidden, DNoAttribute, DPod, DIfoo, DI,
    DAnonymous, DX, DNamespace, FExportedInline, FExportedDecl, FHiddenInline,
    DVariable, DTemplate, DTypedef }

Injective(seq) == \A j, k \in 1..Len(seq) : j /= k => seq[j] /= seq[k]

DeclSeqs == { ds \in SeqsUpTo(DeclItems, MaxDecls) : Injective(ds) }

Namespace(name, decls) == Cursor("NAMESPACE", name, decls)

\* Top-level declarations of the translation unit
RootItems ==
  { Namespace(tOrthanc, << DWidget >>),
    Namespace(tOrthanc, << DIFoo, FExportedInline >>),
    Namespace(tOther, << DWidget, DI, DVariable >>),
    Namespace(tOther, << Namespace(tOrthanc, << DOuter >>) >>),
    Namespace(tOrthanc, << DX, DXOfInt >>),
    DOuter, FExportedInline, DAnonymous }

TranslationUnit(roots) == Cursor("TRANSLATION_UNIT", << >>, roots)

Trees ==
  { TranslationUnit(<< Namespace(tOrthanc, << c >>) >>) : c \in FocusClasses }
  \cup { TranslationUnit(<< Namespace(tOrthanc, ds) >>) : ds \in DeclSeqs }
  \cup { TranslationUnit(rs) : rs \in { r \in SeqsUpTo(RootItems, MaxRoots) : Injective(r) } }

(***************************************************************************)
(* The state of a run                                                      *)
(***************************************************************************)

VARIABLES
  tu,         \* tu.cursor: the declaration tree of the translation unit
  pc,         \* "main" while the script runs, then "done" or "aborted"
  rootIdx,    \* position of the main loop in the children of tu.cursor
  stack,      \* the pending calls of ExploreNamespace and ExploreClass
  FILES,      \* the global FILES
  COUNT,      \* the global COUNT
  ALL_TYPES,  \* the global ALL_TYPES
  out,        \* the lines printed on the standard output
  sizeFile,   \* the lines written to args.target_cpp_size, if any
  raised,     \* the exception that ended the run, if any
  exitCode,   \* the exit status of the process, once it has ended
  firstRun    \* the outcome of the run before this one on the same tree, if any

vars ==
  << tu, pc, rootIdx, stack, FILES, COUNT, ALL_TYPES, out, sizeFile, raised, exitCode,
     firstRun >>

\* The value of sizeFile while no file is written: the type of a statement is
\* never the empty text, so no size table equals it
NotWritten == << [ printf |-> << >>, sizeof |-> << >> ] >>
NotExited == -1

\* What a run leaves behind once the process has ended
Outcome(status, printed, count, files, table, exception, code) ==
  [ pc |-> status, out |-> printed, COUNT |-> count, FILES |-> files,
    sizeFile |-> table, raised |-> exception, exitCode |-> code ]
NoRun == Outcome("none", << >>, 0, << >>, NotWritten, "none", NotExited)

\* Messages of ReportProblem
NotPureInterface == "Not a pure interface"
MethodWithImplementation == "Exported public method with an implementation"
TemplateWithoutImplementation ==
  "Exported template function without an inline implementation"
FunctionWithImplementation == "Exported public function with an implementation"

\* Printed lines
Line(tag, message, text, name, number) ==
  [ tag |-> tag, message |-> message, text |-> text, name |-> name, number |-> number ]
BlankLine == Line("blank", "", << >>, << >>, 0)
ProblemLine(message, fqn, cursor) ==
  Line("problem", message, JoinFqn(fqn), cursor.spelling, 0)
PureInterfaceLine(fqn) ==
  Line("notice", "Detected a pure interface (this is fine)", JoinFqn(fqn), << >>, 0)
TemplateLine(fqn) ==
  Line("notice",
       "Detected a template function (this is fine, but avoid it as much as possible)",
       JoinFqn(fqn), << >>, 0)
TotalLine(count) ==
  Line("total", "Total of possibly problematic methods", << >>, << >>, count)
FilesHeader == Line("header", "Problematic files:", << >>, << >>, 0)
FileLine(file) == Line("file", "", file, << >>, 0)

\* The cursor reached from tu.cursor by the child positions of path
RECURSIVE NodeAt(_, _)
NodeAt(node, path) ==
  IF path = << >> THEN node ELSE NodeAt(node.children[Head(path)], Tail(path))

\* A pending call: the cursor explored (by its path), the fqn argument, the
\* position of the loop over its children and the local variables
Frame(phase, path, fqn) ==
  [ phase |-> phase, path |-> path, fqn |-> fqn, idx |-> 1,
    isPublic |-> FALSE, abstract |-> TRUE ]

Top == stack[Len(stack)]
TopNode == NodeAt(tu, Top.path)
Caller == SubSeq(stack, 1, Len(stack) - 1)
ReplaceTop(frame) == Append(Caller, frame)
Advanced(frame) == [ frame EXCEPT !.idx = frame.idx + 1 ]

Init ==
  /\ tu \in Trees
  /\ pc = "main"
  /\ rootIdx = 1
  /\ stack = << >>
  /\ FILES = << >>
  /\ COUNT = 0
  /\ ALL_TYPES = << >>
  /\ out = << BlankLine >>
  /\ sizeFile = NotWritten
  /\ raised = "none"
  /\ exitCode = NotExited
  /\ firstRun = NoRun

\* Mutant: the report is kept sorted by the fqn text of its problem lines
ReportProblemSorted(message, fqn, cursor, printed) ==
  /\ FILES' = Append(FILES, NormPath(cursor.file))
  /\ COUNT' = COUNT + 1
  /\ out' = LET line == ProblemLine(message, fqn, cursor)
                later(l) == l.tag = "problem" /\ TextLess(line.text, l.text)
            IN SelectSeq(printed, LAMBDA l : ~later(l)) \o << line >>
                 \o SelectSeq(printed, later)

\* def ReportProblem(message, fqn, cursor), printing after the lines of printed
ReportProblem(message, fqn, cursor, printed) ==
  /\ FILES' = Append(FILES, NormPath(cursor.file))
  /\ COUNT' = COUNT + 1
  /\ out' = Append(printed, ProblemLine(message, fqn, cursor))

\* An uncaught exception: the interpreter unwinds every call and exits with 1
Raise(exception) ==
  /\ pc' = "aborted"
  /\ stack' = << >>
  /\ raised' = exception
  /\ exitCode' = 1

\* for j in i.get_children(): if j.kind == COMPOUND_STMT: hasImplementation = True
HasImplementation(i) ==
  \E j \in 1..Len(i.children) : i.children[j].kind = "COMPOUND_STMT"

\* Mutant: any visibility attribute counts, whatever its value
IsVisibleAnyAttribute(node) ==
  \E k \in 1..Len(node.children) : node.children[k].kind = "VISIBILITY_ATTR"

\* The loop that sets visible
IsVisible(node) ==
  \E k \in 1..Len(node.children) :
    /\ node.children[k].kind = "VISIBILITY_ATTR"
    /\ node.children[k].spelling = tDefault

(***************************************************************************)
(* The rules of ExploreClass and ExploreNamespace on one child             *)
(***************************************************************************)

\* Mutant: the name test reads the characters one position too far
InterfaceNameTestShifted(child) ==
  IF child.kind /= "CLASS_DECL" THEN "no"
  ELSE IF Len(child.spelling) < 2 THEN "IndexError"
  ELSE IF child.spelling[2] /= "I" THEN "no"
  ELSE IF Len(child.spelling) < 3 THEN "IndexError"
  ELSE IF IsUpper(child.spelling[3]) THEN "yes"
  ELSE "no"

\* Mutant: the test of the name does not look at the kind of the cursor
InterfaceNameTestAnyKind(child) ==
  IF Len(child.spelling) < 1 THEN "IndexError"
  ELSE IF child.spelling[1] /= "I" THEN "no"
  ELSE IF Len(child.spelling) < 2 THEN "IndexError"
  ELSE IF IsUpper(child.spelling[2]) THEN "yes"
  ELSE "no"

\* The test that selects the interface scan.  Indexing a spelling beyond its
\* end raises IndexError; "and" evaluates its operands left to right and
\* stops at the first false one.
InterfaceNameTest(child) ==
  IF child.kind /= "CLASS_DECL" THEN "no"
  ELSE IF Len(child.spelling) < 1 THEN "IndexError"
  ELSE IF child.spelling[1] /= "I" THEN "no"
  ELSE IF Len(child.spelling) < 2 THEN "IndexError"
  ELSE IF IsUpper(child.spelling[2]) THEN "yes"
  ELSE "no"

\* Mutant: the non-copyable marker is not exempted among the bases
InterfaceAbstractNoMarker(i, isPublic, abstract) ==
  IF i.kind = "VISIBILITY_ATTR" THEN abstract
  ELSE IF i.kind = "CXX_ACCESS_SPEC_DECL" THEN abstract
  ELSE IF i.kind = "CXX_BASE_SPECIFIER"
  THEN FALSE
  ELSE IF isPublic
  THEN IF i.kind = "CXX_METHOD"
       THEN IF i.pure THEN abstract
            ELSE IF i.static
            THEN (IF HasImplementation(i) THEN FALSE ELSE abstract)
            ELSE FALSE
       ELSE IF i.kind = "DESTRUCTOR" /\ i.virtual
       THEN LET c == i.children
            IN IF \/ Len(c) /= 1
                  \/ c[1].kind /= "COMPOUND_STMT"
                  \/ Len(c[1].children) /= 0
               THEN FALSE ELSE abstract
       ELSE IF i.kind = "CLASS_DECL" THEN abstract
       ELSE IF i.kind = "TYPEDEF_DECL" \/ i.kind = "ENUM_DECL" THEN abstract
       ELSE FALSE
  ELSE abstract

\* Mutant: a virtual destructor that is declared without a body is accepted
InterfaceAbstractBodilessDestructor(i, isPublic, abstract) ==
  IF i.kind = "VISIBILITY_ATTR" THEN abstract
  ELSE IF i.kind = "CXX_ACCESS_SPEC_DECL" THEN abstract
  ELSE IF i.kind = "CXX_BASE_SPECIFIER"
  THEN (IF i.spelling /= tNoncopyable THEN FALSE ELSE abstract)
  ELSE IF isPublic
  THEN IF i.kind = "CXX_METHOD"
       THEN IF i.pure THEN abstract
            ELSE IF i.static
            THEN (IF HasImplementation(i) THEN FALSE ELSE abstract)
            ELSE FALSE
       ELSE IF i.kind = "DESTRUCTOR" /\ i.virtual
       THEN LET c == i.children
            IN IF Len(c) = 0 THEN abstract
               ELSE IF \/ Len(c) /= 1
                       \/ c[1].kind /= "COMPOUND_STMT"
                       \/ Len(c[1].children) /= 0
               THEN FALSE ELSE abstract
       ELSE IF i.kind = "CLASS_DECL" THEN abstract
       ELSE IF i.kind = "TYPEDEF_DECL" \/ i.kind = "ENUM_DECL" THEN abstract
       ELSE FALSE
  ELSE abstract

\* Mutant: a static method is refused only when its body holds a statement
InterfaceAbstractStaticEmptyBody(i, isPublic, abstract) ==
  IF i.kind = "VISIBILITY_ATTR" THEN abstract
  ELSE IF i.kind = "CXX_ACCESS_SPEC_DECL" THEN abstract
  ELSE IF i.kind = "CXX_BASE_SPECIFIER"
  THEN (IF i.spelling /= tNoncopyable THEN FALSE ELSE abstract)
  ELSE IF isPublic
  THEN IF i.kind = "CXX_METHOD"
       THEN IF i.pure THEN abstract
            ELSE IF i.static
            THEN (IF \E j \in 1..Len(i.children) :
                       /\ i.children[j].kind = "COMPOUND_STMT"
                       /\ Len(i.children[j].children) /= 0
                  THEN FALSE ELSE abstract)
            ELSE FALSE
       ELSE IF i.kind = "DESTRUCTOR" /\ i.virtual
       THEN LET c == i.children
            IN IF \/ Len(c) /= 1
                  \/ c[1].kind /= "COMPOUND_STMT"
                  \/ Len(c[1].children) /= 0
               THEN FALSE ELSE abstract
       ELSE IF i.kind = "CLASS_DECL" THEN abstract
       ELSE IF i.kind = "TYPEDEF_DECL" \/ i.kind = "ENUM_DECL" THEN abstract
       ELSE FALSE
  ELSE abstract

\* Mutant: the bases are checked in a public section only
InterfaceAbstractBasePublicOnly(i, isPublic, abstract) ==
  IF i.kind = "VISIBILITY_ATTR" THEN abstract
  ELSE IF i.kind = "CXX_ACCESS_SPEC_DECL" THEN abstract
  ELSE IF i.kind = "CXX_BASE_SPECIFIER"
  THEN (IF isPublic /\ i.spelling /= tNoncopyable THEN FALSE ELSE abstract)
  ELSE IF isPublic
  THEN IF i.kind = "CXX_METHOD"
       THEN IF i.pure THEN abstract
            ELSE IF i.static
            THEN (IF HasImplementation(i) THEN FALSE ELSE abstract)
            ELSE FALSE
       ELSE IF i.kind = "DESTRUCTOR" /\ i.virtual
       THEN LET c == i.children
            IN IF \/ Len(c) /= 1
                  \/ c[1].kind /= "COMPOUND_STMT"
                  \/ Len(c[1].children) /= 0
               THEN FALSE ELSE abstract
       ELSE IF i.kind = "CLASS_DECL" THEN abstract
       ELSE IF i.kind = "TYPEDEF_DECL" \/ i.kind = "ENUM_DECL" THEN abstract
       ELSE FALSE
  ELSE abstract

\* Mutant: a public nested class invalidates the enclosing interface
InterfaceAbstractNestedInvalidates(i, isPublic, abstract) ==
  IF i.kind = "VISIBILITY_ATTR" THEN abstract
  ELSE IF i.kind = "CXX_ACCESS_SPEC_DECL" THEN abstract
  ELSE IF i.kind = "CXX_BASE_SPECIFIER"
  THEN (IF i.spelling /= tNoncopyable THEN FALSE ELSE abstract)
  ELSE IF isPublic
  THEN IF i.kind = "CXX_METHOD"
       THEN IF i.pure THEN abstract
            ELSE IF i.static
            THEN (IF HasImplementation(i) THEN FALSE ELSE abstract)
            ELSE FALSE
       ELSE IF i.kind = "DESTRUCTOR" /\ i.virtual
       THEN LET c == i.children
            IN IF \/ Len(c) /= 1
                  \/ c[1].kind /= "COMPOUND_STMT"
                  \/ Len(c[1].children) /= 0
               THEN FALSE ELSE abstract
       ELSE IF i.kind = "CLASS_DECL" THEN FALSE
       ELSE IF i.kind = "TYPEDEF_DECL" \/ i.kind = "ENUM_DECL" THEN abstract
       ELSE FALSE
  ELSE abstract

\* The value of abstract after the child i of an interface-named class
InterfaceAbstract(i, isPublic, abstract) ==
  IF i.kind = "VISIBILITY_ATTR" THEN abstract
  ELSE IF i.kind = "CXX_ACCESS_SPEC_DECL" THEN abstract
  ELSE IF i.kind = "CXX_BASE_SPECIFIER"
  THEN (IF i.spelling /= tNoncopyable THEN FALSE ELSE abstract)
  ELSE IF isPublic
  THEN IF i.kind = "CXX_METHOD"
       THEN IF i.pure THEN abstract
            ELSE IF i.static
            THEN (IF HasImplementation(i) THEN FALSE ELSE abstract)
            ELSE FALSE
       ELSE IF i.kind = "DESTRUCTOR" /\ i.virtual
       THEN LET c == i.children
            IN IF \/ Len(c) /= 1
                  \/ c[1].kind /= "COMPOUND_STMT"
                  \/ Len(c[1].children) /= 0
               THEN FALSE ELSE abstract
       ELSE IF i.kind = "CLASS_DECL" THEN abstract
       ELSE IF i.kind = "TYPEDEF_DECL" \/ i.kind = "ENUM_DECL" THEN abstract
       ELSE FALSE
  ELSE abstract

\* Mutant: only a private section is not public
AccessAfterProtectedAsPublic(i, isPublic) ==
  IF i.kind = "CXX_ACCESS_SPEC_DECL" THEN i.access /= "PRIVATE" ELSE isPublic

\* The value of isPublic after the child i (both scans)
AccessAfter(i, isPublic) ==
  IF i.kind = "CXX_ACCESS_SPEC_DECL" THEN i.access = "PUBLIC" ELSE isPublic

\* Whether the interface scan calls ExploreClass on the child i
InterfaceRecurses(i, isPublic) ==
  /\ i.kind \notin { "VISIBILITY_ATTR", "CXX_ACCESS_SPEC_DECL", "CXX_BASE_SPECIFIER" }
  /\ isPublic
  /\ i.kind /= "CXX_METHOD"
  /\ ~(i.kind = "DESTRUCTOR" /\ i.virtual)
  /\ i.kind = "CLASS_DECL"

\* The friend declarations the ordinary scan accepts in a public section
FriendWhitelist == { WhitelistedFriend }

\* Mutant: the access section of a friend is not looked at
FriendRaisesAnySection(i, isPublic) ==
  LET children == i.children
  IN \/ Len(children) /= 1
     \/ ~(children[1].displayname \in FriendWhitelist)

FriendRaises(i, isPublic) ==
  LET children == i.children
  IN /\ isPublic
     /\ \/ Len(children) /= 1
        \/ ~(children[1].displayname \in FriendWhitelist)

\* Mutant: inline methods are reported whatever the access section
OrdinaryRuleAnySection(i, isPublic) ==
  IF i.kind = "VISIBILITY_ATTR" \/ i.kind = "CXX_BASE_SPECIFIER" THEN "pass"
  ELSE IF i.kind = "CXX_ACCESS_SPEC_DECL" THEN "pass"
  ELSE IF i.kind = "CLASS_DECL" THEN (IF isPublic THEN "recurse" ELSE "pass")
  ELSE IF i.kind = "CXX_METHOD" \/ i.kind = "CONSTRUCTOR" \/ i.kind = "DESTRUCTOR"
  THEN (IF HasImplementation(i) THEN "report" ELSE "pass")
  ELSE IF i.kind = "VAR_DECL" THEN "raise"
  ELSE IF i.kind = "FUNCTION_TEMPLATE"
  THEN (IF isPublic
        THEN (IF ~HasImplementation(i) THEN "notice+report" ELSE "notice")
        ELSE "pass")
  ELSE IF i.kind = "TYPEDEF_DECL" \/ i.kind = "ENUM_DECL" THEN "pass"
  ELSE IF i.kind = "FRIEND_DECL" THEN (IF FriendRaises(i, isPublic) THEN "raise" ELSE "pass")
  ELSE IF i.kind = "FIELD_DECL" THEN "pass"
  ELSE (IF isPublic THEN "raise" ELSE "pass")

\* Mutant: a static variable is allowed like a typedef
OrdinaryRuleStaticAllowed(i, isPublic) ==
  IF i.kind = "VISIBILITY_ATTR" \/ i.kind = "CXX_BASE_SPECIFIER" THEN "pass"
  ELSE IF i.kind = "CXX_ACCESS_SPEC_DECL" THEN "pass"
  ELSE IF i.kind = "CLASS_DECL" THEN (IF isPublic THEN "recurse" ELSE "pass")
  ELSE IF i.kind = "CXX_METHOD" \/ i.kind = "CONSTRUCTOR" \/ i.kind = "DESTRUCTOR"
  THEN (IF isPublic /\ HasImplementation(i) THEN "report" ELSE "pass")
  ELSE IF i.kind = "VAR_DECL" THEN "pass"
  ELSE IF i.kind = "FUNCTION_TEMPLATE"
  THEN (IF isPublic
        THEN (IF ~HasImplementation(i) THEN "notice+report" ELSE "notice")
        ELSE "pass")
  ELSE IF i.kind = "TYPEDEF_DECL" \/ i.kind = "ENUM_DECL" THEN "pass"
  ELSE IF i.kind = "FRIEND_DECL" THEN (IF FriendRaises(i, isPublic) THEN "raise" ELSE "pass")
  ELSE IF i.kind = "FIELD_DECL" THEN "pass"
  ELSE (IF isPublic THEN "raise" ELSE "pass")

\* Mutant: a member of an unknown kind is ignored
OrdinaryRuleFailOpen(i, isPublic) ==
  IF i.kind = "VISIBILITY_ATTR" \/ i.kind = "CXX_BASE_SPECIFIER" THEN "pass"
  ELSE IF i.kind = "CXX_ACCESS_SPEC_DECL" THEN "pass"
  ELSE IF i.kind = "CLASS_DECL" THEN (IF isPublic THEN "recurse" ELSE "pass")
  ELSE IF i.kind = "CXX_METHOD" \/ i.kind = "CONSTRUCTOR" \/ i.kind = "DESTRUCTOR"
  THEN (IF isPublic /\ HasImplementation(i) THEN "report" ELSE "pass")
  ELSE IF i.kind = "VAR_DECL" THEN "raise"
  ELSE IF i.kind = "FUNCTION_TEMPLATE"
  THEN (IF isPublic
        THEN (IF ~HasImplementation(i) THEN "notice+report" ELSE "notice")
        ELSE "pass")
  ELSE IF i.kind = "TYPEDEF_DECL" \/ i.kind = "ENUM_DECL" THEN "pass"
  ELSE IF i.kind = "FRIEND_DECL" THEN (IF FriendRaises(i, isPublic) THEN "raise" ELSE "pass")
  ELSE IF i.kind = "FIELD_DECL" THEN "pass"
  ELSE "pass"

\* Mutant: the test of the body of a function template is inverted
OrdinaryRuleTemplateInverted(i, isPublic) ==
  IF i.kind = "VISIBILITY_ATTR" \/ i.kind = "CXX_BASE_SPECIFIER" THEN "pass"
  ELSE IF i.kind = "CXX_ACCESS_SPEC_DECL" THEN "pass"
  ELSE IF i.kind = "CLASS_DECL" THEN (IF isPublic THEN "recurse" ELSE "pass")
  ELSE IF i.kind = "CXX_METHOD" \/ i.kind = "CONSTRUCTOR" \/ i.kind = "DESTRUCTOR"
  THEN (IF isPublic /\ HasImplementation(i) THEN "report" ELSE "pass")
  ELSE IF i.kind = "VAR_DECL" THEN "raise"
  ELSE IF i.kind = "FUNCTION_TEMPLATE"
  THEN (IF isPublic
        THEN (IF HasImplementation(i) THEN "notice+report" ELSE "notice")
        ELSE "pass")
  ELSE IF i.kind = "TYPEDEF_DECL" \/ i.kind = "ENUM_DECL" THEN "pass"
  ELSE IF i.kind = "FRIEND_DECL" THEN (IF FriendRaises(i, isPublic) THEN "raise" ELSE "pass")
  ELSE IF i.kind = "FIELD_DECL" THEN "pass"
  ELSE (IF isPublic THEN "raise" ELSE "pass")

\* What the ordinary scan does with the child i:
\*   "pass", "recurse" (ExploreClass on i), "report" (ReportProblem on i),
\*   "notice" (the template notice), "notice+report", or "raise"
OrdinaryRule(i, isPublic) ==
  IF i.kind = "VISIBILITY_ATTR" \/ i.kind = "CXX_BASE_SPECIFIER" THEN "pass"
  ELSE IF i.kind = "CXX_ACCESS_SPEC_DECL" THEN "pass"
  ELSE IF i.kind = "CLASS_DECL" THEN (IF isPublic THEN "recurse" ELSE "pass")
  ELSE IF i.kind = "CXX_METHOD" \/ i.kind = "CONSTRUCTOR" \/ i.kind = "DESTRUCTOR"
  THEN (IF isPublic /\ HasImplementation(i) THEN "report" ELSE "pass")
  ELSE IF i.kind = "VAR_DECL" THEN "raise"
  ELSE IF i.kind = "FUNCTION_TEMPLATE"
  THEN (IF isPublic
        THEN (IF ~HasImplementation(i) THEN "notice+report" ELSE "notice")
        ELSE "pass")
  ELSE IF i.kind = "TYPEDEF_DECL" \/ i.kind = "ENUM_DECL" THEN "pass"
  ELSE IF i.kind = "FRIEND_DECL" THEN (IF FriendRaises(i, isPublic) THEN "raise" ELSE "pass")
  ELSE IF i.kind = "FIELD_DECL" THEN "pass"
  ELSE (IF isPublic THEN "raise" ELSE "pass")

\* Mutant: a namespace is explored only if it carries the default visibility
NamespaceRuleVisibleOnly(child) ==
  IF child.kind = "NAMESPACE" THEN (IF IsVisible(child) THEN "namespace" ELSE "pass")
  ELSE IF child.kind = "CLASS_DECL" \/ child.kind = "STRUCT_DECL" THEN "class"
  ELSE IF child.kind = "FUNCTION_DECL"
  THEN (IF IsVisible(child) /\ HasImplementation(child) THEN "report" ELSE "pass")
  ELSE "pass"

\* What ExploreNamespace does with a child
NamespaceRule(child) ==
  IF child.kind = "NAMESPACE" THEN "namespace"
  ELSE IF child.kind = "CLASS_DECL" \/ child.kind = "STRUCT_DECL" THEN "class"
  ELSE IF child.kind = "FUNCTION_DECL"
  THEN (IF IsVisible(child) /\ HasImplementation(child) THEN "report" ELSE "pass")
  ELSE "pass"

\* Mutant: the call on a child is given the fqn of the parent
NestedFqnOfParent(fqn, i) == fqn

\* fqn + [ i.spelling ]: the fqn argument of a call on the child i
NestedFqn(fqn, i) == Append(fqn, i.spelling)

\* The main loop explores the top-level namespaces of this name
TopNamespace == tOrthanc

(***************************************************************************)
(* The steps of a run                                                      *)
(***************************************************************************)

\* Mutant: the main loop explores every top-level namespace
MainAnyNamespace ==
  /\ pc = "main"
  /\ stack = << >>
  /\ rootIdx <= Len(tu.children)
  /\ LET node == tu.children[rootIdx]
     IN stack' = IF node.kind = "NAMESPACE"
                 THEN << Frame("namespace", << rootIdx >>, << TopNamespace >>) >>
                 ELSE stack
  /\ rootIdx' = rootIdx + 1
  /\ UNCHANGED << firstRun, tu, pc, FILES, COUNT, ALL_TYPES, out, sizeFile, raised, exitCode >>

\* for node in tu.cursor.get_children(): one iteration
Main ==
  /\ pc = "main"
  /\ stack = << >>
  /\ rootIdx <= Len(tu.children)
  /\ LET node == tu.children[rootIdx]
     IN stack' = IF node.kind = "NAMESPACE" /\ node.spelling = TopNamespace
                 THEN << Frame("namespace", << rootIdx >>, << TopNamespace >>) >>
                 ELSE stack
  /\ rootIdx' = rootIdx + 1
  /\ UNCHANGED << firstRun, tu, pc, FILES, COUNT, ALL_TYPES, out, sizeFile, raised, exitCode >>

\* ExploreNamespace: one iteration of the loop over the children
ExploreNamespaceStep ==
  /\ pc = "main"
  /\ stack /= << >>
  /\ Top.phase = "namespace"
  /\ Top.idx <= Len(TopNode.children)
  /\ LET child == TopNode.children[Top.idx]
         fqn == NestedFqn(Top.fqn, child)
         rule == NamespaceRule(child)
         callee == Append(Top.path, Top.idx)
     IN /\ stack' =
             IF rule = "namespace"
             THEN Append(ReplaceTop(Advanced(Top)), Frame("namespace", callee, fqn))
             ELSE IF rule = "class"
             THEN Append(ReplaceTop(Advanced(Top)), Frame("enter", callee, fqn))
             ELSE ReplaceTop(Advanced(Top))
        /\ IF rule = "report"
           THEN ReportProblem(FunctionWithImplementation, fqn,
                              child.children[Len(child.children)], out)
           ELSE UNCHANGED << FILES, COUNT, out >>
  /\ UNCHANGED << firstRun, tu, pc, rootIdx, ALL_TYPES, sizeFile, raised, exitCode >>

\* ExploreNamespace: the loop is over, the call returns
ExploreNamespaceReturn ==
  /\ pc = "main"
  /\ stack /= << >>
  /\ Top.phase = "namespace"
  /\ Top.idx > Len(TopNode.children)
  /\ stack' = Caller
  /\ UNCHANGED << firstRun, tu, pc, rootIdx, FILES, COUNT, ALL_TYPES, out, sizeFile, raised, exitCode >>

\* Mutant: a class nested in an exported class is taken as exported
ExploreClassEnterInherits ==
  /\ pc = "main"
  /\ stack /= << >>
  /\ Top.phase = "enter"
  /\ LET child == TopNode
         test == InterfaceNameTest(child)
     IN IF child.kind /= "CLASS_DECL" /\ child.kind /= "STRUCT_DECL"
        THEN /\ Raise("Exception")
             /\ UNCHANGED ALL_TYPES
        ELSE IF ~child.is_definition \/ (~IsVisible(child) /\ Len(Top.fqn) <= 2)
        THEN /\ stack' = Caller
             /\ UNCHANGED << pc, ALL_TYPES, raised, exitCode >>
        ELSE /\ ALL_TYPES' = Append(ALL_TYPES, JoinFqn(Top.fqn))
             /\ IF test = "IndexError"
                THEN Raise("IndexError")
                ELSE /\ stack' =
                          IF test = "yes"
                          THEN ReplaceTop([ Top EXCEPT !.phase = "interface",
                                                       !.abstract = TRUE,
                                                       !.isPublic = FALSE ])
                          ELSE ReplaceTop([ Top EXCEPT !.phase = "ordinary",
                                                       !.isPublic = (child.kind = "STRUCT_DECL") ])
                     /\ UNCHANGED << pc, raised, exitCode >>
  /\ UNCHANGED << firstRun, tu, rootIdx, FILES, COUNT, out, sizeFile >>

\* ExploreClass, from its entry to the choice of the scan
ExploreClassEnter ==
  /\ pc = "main"
  /\ stack /= << >>
  /\ Top.phase = "enter"
  /\ LET child == TopNode
         test == InterfaceNameTest(child)
     IN IF child.kind /= "CLASS_DECL" /\ child.kind /= "STRUCT_DECL"
        THEN /\ Raise("Exception")
             /\ UNCHANGED ALL_TYPES
        ELSE IF ~child.is_definition \/ ~IsVisible(child)
        THEN /\ stack' = Caller
             /\ UNCHANGED << pc, ALL_TYPES, raised, exitCode >>
        ELSE /\ ALL_TYPES' = Append(ALL_TYPES, JoinFqn(Top.fqn))
             /\ IF test = "IndexError"
                THEN Raise("IndexError")
                ELSE /\ stack' =
                          IF test = "yes"
                          THEN ReplaceTop([ Top EXCEPT !.phase = "interface",
                                                       !.abstract = TRUE,
                                                       !.isPublic = FALSE ])
                          ELSE ReplaceTop([ Top EXCEPT !.phase = "ordinary",
                                                       !.isPublic = (child.kind = "STRUCT_DECL") ])
                     /\ UNCHANGED << pc, raised, exitCode >>
  /\ UNCHANGED << firstRun, tu, rootIdx, FILES, COUNT, out, sizeFile >>

\* Mutant: the interface scan refuses a public static variable as the
\* ordinary scan does
InterfaceScanStepRaises ==
  /\ pc = "main"
  /\ stack /= << >>
  /\ Top.phase = "interface"
  /\ Top.idx <= Len(TopNode.children)
  /\ LET i == TopNode.children[Top.idx]
         next == [ Top EXCEPT !.idx = Top.idx + 1,
                              !.isPublic = AccessAfter(i, Top.isPublic),
                              !.abstract = InterfaceAbstract(i, Top.isPublic, Top.abstract) ]
     IN IF Top.isPublic /\ i.kind = "VAR_DECL"
        THEN Raise("Unsupported")
        ELSE /\ stack' =
                  IF InterfaceRecurses(i, Top.isPublic)
                  THEN Append(ReplaceTop(next),
                              Frame("enter", Append(Top.path, Top.idx), NestedFqn(Top.fqn, i)))
                  ELSE ReplaceTop(next)
             /\ UNCHANGED << pc, raised, exitCode >>
  /\ UNCHANGED << firstRun, tu, rootIdx, FILES, COUNT, ALL_TYPES, out, sizeFile >>

\* ExploreClass, interface scan: one iteration of the loop over the children
InterfaceScanStep ==
  /\ pc = "main"
  /\ stack /= << >>
  /\ Top.phase = "interface"
  /\ Top.idx <= Len(TopNode.children)
  /\ LET i == TopNode.children[Top.idx]
         next == [ Top EXCEPT !.idx = Top.idx + 1,
                              !.isPublic = AccessAfter(i, Top.isPublic),
                              !.abstract = InterfaceAbstract(i, Top.isPublic, Top.abstract) ]
     IN stack' =
          IF InterfaceRecurses(i, Top.isPublic)
          THEN Append(ReplaceTop(next),
                      Frame("enter", Append(Top.path, Top.idx), NestedFqn(Top.fqn, i)))
          ELSE ReplaceTop(next)
  /\ UNCHANGED << firstRun, tu, pc, rootIdx, FILES, COUNT, ALL_TYPES, out, sizeFile, raised, exitCode >>

\* ExploreClass, interface scan: the verdict and the return
InterfaceScanEnd ==
  /\ pc = "main"
  /\ stack /= << >>
  /\ Top.phase = "interface"
  /\ Top.idx > Len(TopNode.children)
  /\ IF Top.abstract
     THEN /\ out' = Append(out, PureInterfaceLine(Top.fqn))
          /\ UNCHANGED << FILES, COUNT >>
     ELSE ReportProblem(NotPureInterface, Top.fqn, TopNode, out)
  /\ stack' = Caller
  /\ UNCHANGED << firstRun, tu, pc, rootIdx, ALL_TYPES, sizeFile, raised, exitCode >>

\* ExploreClass, ordinary scan: one iteration of the loop over the children
OrdinaryScanStep ==
  /\ pc = "main"
  /\ stack /= << >>
  /\ Top.phase = "ordinary"
  /\ Top.idx <= Len(TopNode.children)
  /\ LET i == TopNode.children[Top.idx]
         rule == OrdinaryRule(i, Top.isPublic)
         next == [ Top EXCEPT !.idx = Top.idx + 1,
                              !.isPublic = AccessAfter(i, Top.isPublic) ]
         notice == IF rule = "notice" \/ rule = "notice+report"
                   THEN Append(out, TemplateLine(NestedFqn(Top.fqn, i)))
                   ELSE out
     IN IF rule = "raise"
        THEN /\ Raise("Unsupported")
             /\ UNCHANGED << FILES, COUNT, out >>
        ELSE /\ stack' =
                  IF rule = "recurse"
                  THEN Append(ReplaceTop(next),
                              Frame("enter", Append(Top.path, Top.idx),
                                    NestedFqn(Top.fqn, i)))
                  ELSE ReplaceTop(next)
             /\ IF rule = "report" \/ rule = "notice+report"
                THEN ReportProblem(IF rule = "report" THEN MethodWithImplementation
                                   ELSE TemplateWithoutImplementation,
                                   Top.fqn, i, notice)
                ELSE /\ out' = notice
                     /\ UNCHANGED << FILES, COUNT >>
             /\ UNCHANGED << pc, raised, exitCode >>
  /\ UNCHANGED << firstRun, tu, rootIdx, ALL_TYPES, sizeFile >>

\* ExploreClass, ordinary scan: the loop is over, the call returns
OrdinaryScanEnd ==
  /\ pc = "main"
  /\ stack /= << >>
  /\ Top.phase = "ordinary"
  /\ Top.idx > Len(TopNode.children)
  /\ stack' = Caller
  /\ UNCHANGED << firstRun, tu, pc, rootIdx, FILES, COUNT, ALL_TYPES, out, sizeFile, raised, exitCode >>

\* The statement of the size table for the type t
SizeStatement(t) == [ printf |-> t, sizeof |-> t ]

\* Mutant: the script exits with a failure status when it counted violations
FinishExitStatus ==
  /\ pc = "main"
  /\ stack = << >>
  /\ rootIdx > Len(tu.children)
  /\ \E targetCppSize \in BOOLEAN :
       sizeFile' = IF targetCppSize
                   THEN LET types == Sorted(ALL_TYPES)
                        IN [ k \in 1..Len(types) |-> SizeStatement(types[k]) ]
                   ELSE NotWritten
  /\ \E list \in Orderings(SeqToSet(FILES)) :
       LET files == Sorted(list)
       IN out' = out \o << TotalLine(COUNT), FilesHeader >>
                     \o [ k \in 1..Len(files) |-> FileLine(files[k]) ]
                     \o << BlankLine >>
  /\ pc' = "done"
  /\ exitCode' = IF COUNT = 0 THEN 0 ELSE 1
  /\ UNCHANGED << firstRun, tu, rootIdx, stack, FILES, COUNT, ALL_TYPES, raised >>

\* Mutant: the file list is printed as list(set(FILES)) gives it, unsorted
FinishUnsorted ==
  /\ pc = "main"
  /\ stack = << >>
  /\ rootIdx > Len(tu.children)
  /\ \E targetCppSize \in BOOLEAN :
       sizeFile' = IF targetCppSize
                   THEN LET types == Sorted(ALL_TYPES)
                        IN [ k \in 1..Len(types) |-> SizeStatement(types[k]) ]
                   ELSE NotWritten
  /\ \E list \in Orderings(SeqToSet(FILES)) :
       LET files == list
       IN out' = out \o << TotalLine(COUNT), FilesHeader >>
                     \o [ k \in 1..Len(files) |-> FileLine(files[k]) ]
                     \o << BlankLine >>
  /\ pc' = "done"
  /\ exitCode' = 0
  /\ UNCHANGED << firstRun, tu, rootIdx, stack, FILES, COUNT, ALL_TYPES, raised >>

\* Mutant: the file list is sorted but keeps its duplicates
FinishKeepsDuplicates ==
  /\ pc = "main"
  /\ stack = << >>
  /\ rootIdx > Len(tu.children)
  /\ \E targetCppSize \in BOOLEAN :
       sizeFile' = IF targetCppSize
                   THEN LET types == Sorted(ALL_TYPES)
                        IN [ k \in 1..Len(types) |-> SizeStatement(types[k]) ]
                   ELSE NotWritten
  /\ \E list \in { FILES } :
       LET files == Sorted(list)
       IN out' = out \o << TotalLine(COUNT), FilesHeader >>
                     \o [ k \in 1..Len(files) |-> FileLine(files[k]) ]
                     \o << BlankLine >>
  /\ pc' = "done"
  /\ exitCode' = 0
  /\ UNCHANGED << firstRun, tu, rootIdx, stack, FILES, COUNT, ALL_TYPES, raised >>

\* The end of the script: the size table if --target-cpp-size is given, the
\* total, the sorted file list; the interpreter then exits with 0
Finish ==
  /\ pc = "main"
  /\ stack = << >>
  /\ rootIdx > Len(tu.children)
  /\ \E targetCppSize \in BOOLEAN :
       sizeFile' = IF targetCppSize
                   THEN LET types == Sorted(ALL_TYPES)
                        IN [ k \in 1..Len(types) |-> SizeStatement(types[k]) ]
                   ELSE NotWritten
  /\ \E list \in Orderings(SeqToSet(FILES)) :
       LET files == Sorted(list)
       IN out' = out \o << TotalLine(COUNT), FilesHeader >>
                     \o [ k \in 1..Len(files) |-> FileLine(files[k]) ]
                     \o << BlankLine >>
  /\ pc' = "done"
  /\ exitCode' = 0
  /\ UNCHANGED << firstRun, tu, rootIdx, stack, FILES, COUNT, ALL_TYPES, raised >>

Next ==
  \/ Main
  \/ ExploreNamespaceStep
  \/ ExploreNamespaceReturn
  \/ ExploreClassEnter
  \/ InterfaceScanStep
  \/ InterfaceScanEnd
  \/ OrdinaryScanStep
  \/ OrdinaryScanEnd
  \/ Finish

Spec == Init /\ [][Next]_vars

\* The script is run once more on the same tree, in a new process: the
\* globals start again from lines 111-113
Rerun ==
  /\ pc \in { "done", "aborted" }
  /\ firstRun = NoRun
  /\ firstRun' = Outcome(pc, out, COUNT, FILES, sizeFile, raised, exitCode)
  /\ pc' = "main"
  /\ rootIdx' = 1
  /\ stack' = << >>
  /\ FILES' = << >>
  /\ COUNT' = 0
  /\ ALL_TYPES' = << >>
  /\ out' = << BlankLine >>
  /\ sizeFile' = NotWritten
  /\ raised' = "none"
  /\ exitCode' = NotExited
  /\ UNCHANGED tu

TwoRunsNext ==
  \/ Next
  \/ Rerun

\* Two runs of the script in a row on one declaration tree
TwoRuns == Init /\ [][TwoRunsNext]_vars

\* The interpreter runs the script to its end: no step waits for anything
FairSpec == Spec /\ WF_vars(Next)

(***************************************************************************)
(* Vocabulary of the properties                                            *)
(*                                                                         *)
(* These definitions describe the declaration tree in the terms of the     *)
(* specification, independently of the scans above.                        *)
(***************************************************************************)

\* Every path of the tree below node
RECURSIVE PathsBelow(_, _)
PathsBelow(node, path) ==
  { path } \cup UNION { PathsBelow(node.children[k], Append(path, k)) :
                          k \in 1..Len(node.children) }

AllPaths == PathsBelow(tu, << >>)

\* The names from the root down to the cursor at path
SpelledPath(path) ==
  [ k \in 1..Len(path) |-> NodeAt(tu, SubSeq(path, 1, k)).spelling ]

IsClassNode(node) == node.kind = "CLASS_DECL" \/ node.kind = "STRUCT_DECL"

\* Exported: a definition that carries the default visibility
IsExported(node) ==
  /\ node.is_definition
  /\ \E k \in 1..Len(node.children) :
       node.children[k].kind = "VISIBILITY_ATTR" /\ node.children[k].spelling = tDefault

\* The naming convention of interfaces
IsInterfaceNamed(node) ==
  /\ node.kind = "CLASS_DECL"
  /\ Len(node.spelling) >= 2
  /\ node.spelling[1] = "I"
  /\ Occurs(Upper, node.spelling[2])

\* An exported class or struct that does not match the interface pattern
IsOrdinaryClass(node) ==
  /\ IsClassNode(node)
  /\ IsExported(node)
  /\ ~IsInterfaceNamed(node)

\* The access section of the k-th child: that of the nearest preceding access
\* specifier, or the implicit one (public in a struct, private in a class)
PublicAt(node, k) ==
  LET before == { j \in 1..(k - 1) : node.children[j].kind = "CXX_ACCESS_SPEC_DECL" }
  IN IF before = {} THEN node.kind = "STRUCT_DECL"
     ELSE node.children[CHOOSE j \in before : \A h \in before : h <= j].access = "PUBLIC"

HasBody(node) == \E k \in 1..Len(node.children) : node.children[k].kind = "COMPOUND_STMT"

HasEmptyBody(node) ==
  /\ Len(node.children) = 1
  /\ node.children[1].kind = "COMPOUND_STMT"
  /\ node.children[1].children = << >>

\* The problem lines printed so far for the text fqn with the message
ProblemsFor(lines, message, fqn) ==
  SelectSeq(lines, LAMBDA l : l.tag = "problem" /\ l.message = message /\ l.text = fqn)

ProblemLines(lines) == SelectSeq(lines, LAMBDA l : l.tag = "problem")

\* The frame of the call that is running, if any
InCall == pc = "main" /\ stack /= << >>

(***************************************************************************)
(* Properties                                                              *)
(***************************************************************************)

\* The shape of a pure interface: an exported class named as an interface
\* whose bases are the non-copyable marker only and whose public members are
\* pure virtual methods and a virtual destructor with an empty body.
HasPureInterfaceShape(node) ==
  /\ IsInterfaceNamed(node)
  /\ IsExported(node)
  /\ \A k \in 1..Len(node.children) :
       LET i == node.children[k]
       IN IF i.kind = "CXX_BASE_SPECIFIER" THEN i.spelling = tNoncopyable
          ELSE IF i.kind \in { "VISIBILITY_ATTR", "CXX_ACCESS_SPEC_DECL" } THEN TRUE
          ELSE IF ~PublicAt(node, k) THEN TRUE
          ELSE \/ i.kind = "CXX_METHOD" /\ i.pure
               \/ i.kind = "DESTRUCTOR" /\ i.virtual /\ HasEmptyBody(i)

\* A step of ExploreClass on a class that has the shape of a pure interface
C1_PureInterfaceStep ==
  (InCall /\ Top.phase \in { "enter", "interface" } /\ HasPureInterfaceShape(TopNode))
    => /\ COUNT' = COUNT
       /\ FILES' = FILES
       /\ pc' = "main"
       /\ IF stack' = Caller
          THEN /\ Top.phase = "interface"
               /\ out' = Append(out, PureInterfaceLine(SpelledPath(Top.path)))
          ELSE /\ out' = out
               /\ Len(stack') = Len(stack)
               /\ stack'[Len(stack)].phase = "interface"
               /\ stack'[Len(stack)].abstract

\* C1: every step of ExploreClass on a class that has the shape of a pure
\* interface leaves COUNT and FILES unchanged, keeps the class in the
\* interface scan with abstract true, never aborts, and the call returns by
\* printing the pure-interface notice for the fqn of the class and nothing else.
C1_PureInterfaceIsClean == [][C1_PureInterfaceStep]_vars

\* C1 witness: a completed run that met a pure interface with a non-copyable
\* base, a public pure virtual method and a public empty virtual destructor,
\* and printed its notice.
C1_Witness ==
  /\ pc = "done"
  /\ \E p \in AllPaths :
       LET node == NodeAt(tu, p)
       IN /\ HasPureInterfaceShape(node)
          /\ \E k \in 1..Len(node.children) : node.children[k] = InFile(BaseNoncopyable, FileA)
          /\ \E k \in 1..Len(node.children) :
               PublicAt(node, k) /\ node.children[k].kind = "CXX_METHOD"
          /\ \E k \in 1..Len(node.children) :
               PublicAt(node, k) /\ node.children[k].kind = "DESTRUCTOR"
          /\ \E n \in 1..Len(out) : out[n] = PureInterfaceLine(SpelledPath(p))
  /\ COUNT = 0

\* The public children of a class that the ordinary rules would report or refuse
IsOrdinaryOffender(node, k) ==
  LET i == node.children[k]
  IN /\ PublicAt(node, k)
     /\ \/ i.kind = "CXX_METHOD" /\ ~i.pure /\ HasBody(i)
        \/ i.kind \in { "FUNCTION_TEMPLATE", "VAR_DECL", "FRIEND_DECL" }

\* A step of the scan of an exported interface-named class
C2_FailedInterfaceStep ==
  ( /\ InCall
    /\ Top.phase /= "enter"
    /\ Top.phase /= "namespace"
    /\ IsInterfaceNamed(TopNode)
    /\ IsExported(TopNode) )
    => /\ Top.phase = "interface"
       /\ pc' = "main"
       /\ IF stack' = Caller
          THEN /\ (\E k \in 1..Len(TopNode.children) : IsOrdinaryOffender(TopNode, k))
                    => ~Top.abstract
               /\ ~Top.abstract =>
                    /\ out' = Append(out, ProblemLine(NotPureInterface,
                                                      SpelledPath(Top.path), TopNode))
                    /\ COUNT' = COUNT + 1
                    /\ FILES' = Append(FILES, NormPath(TopNode.file))
                    /\ \A n \in 1..Len(out) :
                         out[n].tag = "problem" => out[n].text /= JoinFqn(SpelledPath(Top.path))
          ELSE /\ out' = out
               /\ COUNT' = COUNT
               /\ FILES' = FILES

\* C2: every step of the scan of an exported interface-named class is a step
\* of the interface scan that records and prints nothing and does not abort,
\* whatever the member; the return of a class that failed classification (as
\* does every class with a public inline method, template, static variable or
\* friend) records one Not-a-pure-interface violation for the fqn of the
\* class, the only violation printed for that fqn.
C2_OneViolationPerFailedInterface == [][C2_FailedInterfaceStep]_vars

\* C2 witness: a completed run on an interface-named class with two offending
\* public members, one of them a static variable, that recorded one violation.
C2_Witness ==
  /\ pc = "done"
  /\ COUNT = 1
  /\ \E p \in AllPaths :
       LET node == NodeAt(tu, p)
       IN /\ IsInterfaceNamed(node)
          /\ IsExported(node)
          /\ \E j, k \in 1..Len(node.children) :
               /\ j /= k
               /\ IsOrdinaryOffender(node, j)
               /\ IsOrdinaryOffender(node, k)
               /\ node.children[k].kind = "VAR_DECL"
          /\ Len(ProblemsFor(out, NotPureInterface, JoinFqn(SpelledPath(p)))) = 1

\* The indices k <= n of the children of node that satisfy Test, in order
ChildrenWhere(node, n, Test(_, _)) ==
  SelectSeq([ k \in 1..n |-> k ], LAMBDA k : Test(node, k))

IsPublicInlineMethod(node, k) ==
  /\ node.children[k].kind \in { "CXX_METHOD", "CONSTRUCTOR", "DESTRUCTOR" }
  /\ PublicAt(node, k)
  /\ HasBody(node.children[k])

\* The names of the public inline methods among the first n children
PublicInlineNames(node, n) ==
  LET ks == ChildrenWhere(node, n, IsPublicInlineMethod)
  IN [ j \in 1..Len(ks) |-> node.children[ks[j]].spelling ]

ReportedNames(message, fqn) ==
  LET lines == ProblemsFor(out, message, JoinFqn(fqn))
  IN [ j \in 1..Len(lines) |-> lines[j].name ]

\* The exported classes that a completed run has met
VisitedClassPaths ==
  { p \in AllPaths : /\ p /= << >>
                     /\ IsClassNode(NodeAt(tu, p))
                     /\ IsExported(NodeAt(tu, p))
                     /\ Occurs(ALL_TYPES, JoinFqn(SpelledPath(p))) }

\* C3: while the ordinary scan of an exported class runs, and once the run is
\* complete, the method-with-implementation violations printed for the fqn of
\* the class are, in order, the names of its Method, Constructor and
\* Destructor children scanned so far that lie in a public section and have
\* a compound-statement body.
C3_InlineMethodsReported ==
  /\ \A n \in 1..Len(stack) :
       stack[n].phase = "ordinary" =>
         ReportedNames(MethodWithImplementation, SpelledPath(stack[n].path))
           = PublicInlineNames(NodeAt(tu, stack[n].path), stack[n].idx - 1)
  /\ pc = "done" =>
       \A p \in VisitedClassPaths :
         IsOrdinaryClass(NodeAt(tu, p)) =>
           ReportedNames(MethodWithImplementation, SpelledPath(p))
             = PublicInlineNames(NodeAt(tu, p), Len(NodeAt(tu, p).children))

\* C3 witness: a completed run on an ordinary class with an inline method in
\* a public section and one in a non-public section reported the former only.
C3_Witness ==
  /\ pc = "done"
  /\ \E p \in VisitedClassPaths :
       LET node == NodeAt(tu, p)
       IN /\ IsOrdinaryClass(node)
          /\ \E j, k \in 1..Len(node.children) :
               /\ IsPublicInlineMethod(node, j)
               /\ ~PublicAt(node, k)
               /\ node.children[k].kind = "CXX_METHOD"
               /\ HasBody(node.children[k])
          /\ ReportedNames(MethodWithImplementation, SpelledPath(p)) = << tFoo >>

\* ExploreClass entered on a class that is not exported, and the pending calls
C4_SkipStep ==
  /\ ( /\ InCall
       /\ Top.phase = "enter"
       /\ IsClassNode(TopNode)
       /\ ~IsExported(TopNode) )
       => /\ stack' = Caller
          /\ pc' = "main"
          /\ UNCHANGED << ALL_TYPES, COUNT, FILES, out >>
  /\ \A n \in 1..Len(stack') :
       \A m \in 1..(Len(stack'[n].path) - 1) :
         LET above == NodeAt(tu, SubSeq(stack'[n].path, 1, m))
         IN IsClassNode(above) => IsExported(above)

\* C4: ExploreClass on a class or struct that is a forward declaration or has
\* no default-visibility child returns at once, leaving ALL_TYPES, COUNT,
\* FILES and the output unchanged and without aborting, and no call is ever
\* pending on a cursor below such a class.
C4_UnexportedClassSkipped == [][C4_SkipStep]_vars

\* C4 witness: a completed run that met, in the Orthanc namespace, a class
\* definition without default visibility holding a public inline method, an
\* exported nested class and a static variable, and recorded nothing.
C4_Witness ==
  /\ pc = "done"
  /\ COUNT = 0
  /\ ALL_TYPES = << >>
  /\ Len(tu.children) = 1
  /\ tu.children[1].kind = "NAMESPACE"
  /\ tu.children[1].spelling = tOrthanc
  /\ \E k \in 1..Len(tu.children[1].children) :
       LET node == tu.children[1].children[k]
       IN /\ IsClassNode(node)
          /\ node.is_definition
          /\ ~IsExported(node)
          /\ \E j \in 1..Len(node.children) : IsPublicInlineMethod(node, j)
          /\ \E j \in 1..Len(node.children) :
               PublicAt(node, j) /\ IsClassNode(node.children[j]) /\ IsExported(node.children[j])
          /\ \E j \in 1..Len(node.children) : node.children[j].kind = "VAR_DECL"

\* The ordinary scan is about to examine a child of this kind
AtOrdinaryChild(kinds) ==
  /\ InCall
  /\ Top.phase = "ordinary"
  /\ Top.idx <= Len(TopNode.children)
  /\ TopNode.children[Top.idx].kind \in kinds

\* The step aborts the run: nothing is recorded or printed, every call is
\* abandoned and the process ends with a non-zero status
StepAborts ==
  /\ pc' = "aborted"
  /\ raised' = "Unsupported"
  /\ exitCode' /= 0
  /\ stack' = << >>
  /\ UNCHANGED << ALL_TYPES, COUNT, FILES, out, sizeFile >>

\* The step moves on to the next sibling and records and prints nothing
StepPasses ==
  /\ pc' = "main"
  /\ stack' = ReplaceTop([ Top EXCEPT !.idx = Top.idx + 1 ])
  /\ UNCHANGED << ALL_TYPES, COUNT, FILES, out, sizeFile >>

\* The step on a public static variable, as a recoverable finding
C5_StaticVariableStepRecoverable ==
  (AtOrdinaryChild({ "VAR_DECL" }) /\ PublicAt(TopNode, Top.idx))
    => /\ pc' = "main"
       /\ COUNT' = COUNT + 1
       /\ stack' = ReplaceTop([ Top EXCEPT !.idx = Top.idx + 1 ])

\* C5 as stated: a static variable in a public section of an exported
\* ordinary class records one violation and the scan moves on.
C5_StaticVariableIsRecoverable == [][C5_StaticVariableStepRecoverable]_vars

\* The step on a public static variable, as a fatal construct
C5_StaticVariableStepAborts ==
  (AtOrdinaryChild({ "VAR_DECL" }) /\ PublicAt(TopNode, Top.idx)) => StepAborts

\* C5 amended: a static variable in a public section of an exported ordinary
\* class aborts the run: no violation is recorded for it, the following
\* siblings are not examined and no report is produced.
C5_StaticVariableAborts == [][C5_StaticVariableStepAborts]_vars

\* C5 witness: a run aborted on a public static variable that is followed by
\* a public inline method; nothing was recorded.
C5_Witness ==
  /\ pc = "aborted"
  /\ COUNT = 0
  /\ \A n \in 1..Len(out) : out[n].tag /= "total"
  /\ \E p \in AllPaths :
       LET node == NodeAt(tu, p)
       IN /\ IsOrdinaryClass(node)
          /\ ALL_TYPES = << JoinFqn(SpelledPath(p)) >>
          /\ \E k \in 1..(Len(node.children) - 1) :
               /\ node.children[k].kind = "VAR_DECL"
               /\ PublicAt(node, k)
               /\ IsPublicInlineMethod(node, k + 1)
               /\ \A j \in 1..(k - 1) : node.children[j].kind \in
                                          { "VISIBILITY_ATTR", "CXX_ACCESS_SPEC_DECL" }

\* A friend declaration with exactly one child, of a whitelisted signature
IsWhitelistedFriend(i) ==
  /\ Len(i.children) = 1
  /\ i.children[1].displayname = "operator<<(std::ostream &, const Orthanc::DicomTag &)"

\* The step of the ordinary scan on a friend declaration
C6_FriendStep ==
  AtOrdinaryChild({ "FRIEND_DECL" }) =>
    IF ~PublicAt(TopNode, Top.idx) \/ IsWhitelistedFriend(TopNode.children[Top.idx])
    THEN StepPasses
    ELSE StepAborts

\* C6: when the ordinary scan examines a friend declaration, the step passes
\* without recording anything if the friend lies in a non-public section or
\* is whitelisted, and aborts the run otherwise.
C6_FriendWhitelist == [][C6_FriendStep]_vars

\* C6 witness: a run that passed a public whitelisted friend without
\* recording anything and aborted on the public friend that follows it.
C6_Witness ==
  /\ pc = "aborted"
  /\ COUNT = 0
  /\ \E p \in AllPaths :
       LET node == NodeAt(tu, p)
       IN /\ IsOrdinaryClass(node)
          /\ ALL_TYPES = << JoinFqn(SpelledPath(p)) >>
          /\ \E k \in 1..(Len(node.children) - 1) :
               /\ node.children[k].kind = "FRIEND_DECL"
               /\ PublicAt(node, k)
               /\ IsWhitelistedFriend(node.children[k])
               /\ node.children[k + 1].kind = "FRIEND_DECL"
               /\ ~IsWhitelistedFriend(node.children[k + 1])
               /\ \A j \in 1..(k - 1) : node.children[j].kind \in
                                          { "VISIBILITY_ATTR", "CXX_ACCESS_SPEC_DECL" }

\* An exported ordinary class whose only findings are one public inline method
IsHelperLike(node) ==
  /\ node.kind = "CLASS_DECL"
  /\ IsOrdinaryClass(node)
  /\ Len(node.spelling) >= 2
  /\ Len(PublicInlineNames(node, Len(node.children))) = 1
  /\ \A k \in 1..Len(node.children) :
       node.children[k].kind \in
         { "VISIBILITY_ATTR", "CXX_ACCESS_SPEC_DECL", "CXX_METHOD", "CONSTRUCTOR", "DESTRUCTOR" }

\* The nested classes of the scenario: in a public section of an exported
\* ordinary class of the Orthanc namespace, a pure interface and a Helper-like class
NestedScenario(outer, inner, helper) ==
  /\ Len(outer) = 2
  /\ tu.children[outer[1]].kind = "NAMESPACE"
  /\ tu.children[outer[1]].spelling = tOrthanc
  /\ NodeAt(tu, outer).kind = "CLASS_DECL"
  /\ IsOrdinaryClass(NodeAt(tu, outer))
  /\ Len(NodeAt(tu, outer).spelling) >= 2
  /\ inner \in 1..Len(NodeAt(tu, outer).children)
  /\ helper \in 1..Len(NodeAt(tu, outer).children)
  /\ PublicAt(NodeAt(tu, outer), inner)
  /\ PublicAt(NodeAt(tu, outer), helper)
  /\ HasPureInterfaceShape(NodeAt(tu, outer).children[inner])
  /\ IsHelperLike(NodeAt(tu, outer).children[helper])

\* C7: a completed run on the nested-class scenario has recorded both nested
\* fqns (the fqn of the parent extended with the nested name) in ALL_TYPES,
\* has printed no violation for the nested pure interface and exactly one for
\* the nested ordinary class, which is the method-with-implementation
\* violation of its inline method.
C7_NestedClasses ==
  pc = "done" =>
    \A outer \in AllPaths :
      \A inner, helper \in 1..Len(NodeAt(tu, outer).children) :
        NestedScenario(outer, inner, helper) =>
          LET parent == NodeAt(tu, outer)
              innerFqn == JoinFqn(SpelledPath(outer) \o << parent.children[inner].spelling >>)
              helperFqn == JoinFqn(SpelledPath(outer) \o << parent.children[helper].spelling >>)
              helperLines == SelectSeq(out, LAMBDA l : l.tag = "problem" /\ l.text = helperFqn)
          IN /\ Occurs(ALL_TYPES, innerFqn)
             /\ Occurs(ALL_TYPES, helperFqn)
             /\ \A n \in 1..Len(out) : out[n].tag = "problem" => out[n].text /= innerFqn
             /\ Len(helperLines) = 1
             /\ helperLines[1].message = MethodWithImplementation
             /\ << helperLines[1].name >>
                  = PublicInlineNames(parent.children[helper], Len(parent.children[helper].children))

\* C7 witness: the completed run on class Outer with the public nested
\* classes IInner and Helper, which recorded the single violation of Outer::Helper.
C7_Witness ==
  /\ pc = "done"
  /\ tu = TranslationUnit(<< Namespace(tOrthanc, << DOuter >>) >>)
  /\ NestedScenario(<< 1, 1 >>, 3, 4)
  /\ COUNT = 1
  /\ ALL_TYPES = << JoinFqn(<< tOrthanc, tOuter >>),
                    JoinFqn(<< tOrthanc, tOuter, tIInner >>),
                    JoinFqn(<< tOrthanc, tOuter, tHelper >>) >>
  /\ Len(ProblemsFor(out, MethodWithImplementation, JoinFqn(<< tOrthanc, tOuter, tHelper >>))) = 1

\* The kinds of class members that the rules of the ordinary scan name
RuleTableKinds ==
  { "VISIBILITY_ATTR", "CXX_BASE_SPECIFIER", "CXX_ACCESS_SPEC_DECL", "CLASS_DECL",
    "STRUCT_DECL", "CXX_METHOD", "CONSTRUCTOR", "DESTRUCTOR", "VAR_DECL", "FIELD_DECL",
    "FUNCTION_TEMPLATE", "FRIEND_DECL", "TYPEDEF_DECL", "ENUM_DECL" }

\* A class or struct of the tree, exported or not, holds a member that the
\* ordinary scan refuses in some section: a static variable, a friend that is
\* not whitelisted, a nested struct or a member of a kind outside the rules
TreeHasFatalConstruct ==
  \E p \in AllPaths :
    /\ IsClassNode(NodeAt(tu, p))
    /\ \E k \in 1..Len(NodeAt(tu, p).children) :
         LET i == NodeAt(tu, p).children[k]
         IN \/ i.kind \in { "VAR_DECL", "STRUCT_DECL" }
            \/ i.kind = "FRIEND_DECL" /\ ~IsWhitelistedFriend(i)
            \/ i.kind \notin RuleTableKinds

\* The members an interface may hold in a public section
IsAllowedInInterface(i) ==
  \/ i.kind = "CXX_METHOD" /\ (i.pure \/ (i.static /\ ~HasBody(i)))
  \/ i.kind = "DESTRUCTOR" /\ i.virtual /\ HasEmptyBody(i)
  \/ i.kind \in { "CLASS_DECL", "TYPEDEF_DECL", "ENUM_DECL" }

FailsInterface(node) ==
  \E k \in 1..Len(node.children) :
    LET i == node.children[k]
    IN IF i.kind = "CXX_BASE_SPECIFIER" THEN i.spelling /= tNoncopyable
       ELSE IF i.kind \in { "VISIBILITY_ATTR", "CXX_ACCESS_SPEC_DECL" } THEN FALSE
       ELSE PublicAt(node, k) /\ ~IsAllowedInInterface(i)

IsPublicTemplateWithoutBody(node, k) ==
  /\ node.children[k].kind = "FUNCTION_TEMPLATE"
  /\ PublicAt(node, k)
  /\ ~HasBody(node.children[k])

\* The number of violating constructs among the own members of a visited class
ViolationsOfClass(node) ==
  IF IsInterfaceNamed(node)
  THEN (IF FailsInterface(node) THEN 1 ELSE 0)
  ELSE Len(ChildrenWhere(node, Len(node.children), IsPublicInlineMethod))
         + Len(ChildrenWhere(node, Len(node.children), IsPublicTemplateWithoutBody))

\* The namespaces that the run explores: the top-level Orthanc namespaces and
\* the namespaces nested in them
ExploredNamespacePaths ==
  { p \in AllPaths :
      /\ p /= << >>
      /\ \A m \in 1..Len(p) : NodeAt(tu, SubSeq(p, 1, m)).kind = "NAMESPACE"
      /\ tu.children[p[1]].spelling = tOrthanc }

\* The exported free functions with a body in the explored namespaces
ViolatingFunctionPaths ==
  { p \in AllPaths :
      /\ Len(p) >= 2
      /\ SubSeq(p, 1, Len(p) - 1) \in ExploredNamespacePaths
      /\ NodeAt(tu, p).kind = "FUNCTION_DECL"
      /\ \E k \in 1..Len(NodeAt(tu, p).children) :
           /\ NodeAt(tu, p).children[k].kind = "VISIBILITY_ATTR"
           /\ NodeAt(tu, p).children[k].spelling = tDefault
      /\ HasBody(NodeAt(tu, p)) }

RECURSIVE SumViolations(_)
SumViolations(paths) ==
  IF paths = {} THEN 0
  ELSE LET p == CHOOSE q \in paths : TRUE
       IN ViolationsOfClass(NodeAt(tu, p)) + SumViolations(paths \ { p })

\* The number of violating constructs that a completed run has met
ExpectedViolations == SumViolations(VisitedClassPaths) + Cardinality(ViolatingFunctionPaths)

\* C8 as stated: the run never stops before its end, it aborts only on a
\* tree that holds a fatal construct, and a completed run has counted and
\* printed every violating construct it met.
C8_CompleteReport ==
  /\ pc = "main" => ENABLED Next
  /\ pc = "aborted" => TreeHasFatalConstruct
  /\ pc = "done" =>
       /\ COUNT = ExpectedViolations
       /\ Len(ProblemLines(out)) = ExpectedViolations
       /\ \E n \in 1..Len(out) : out[n] = TotalLine(ExpectedViolations)

\* The step on a member of a kind outside the rules: fatal in a public
\* section, ignored elsewhere
C9_UnknownKindStep ==
  ( /\ InCall
    /\ Top.phase = "ordinary"
    /\ Top.idx <= Len(TopNode.children)
    /\ TopNode.children[Top.idx].kind \notin RuleTableKinds )
    => IF PublicAt(TopNode, Top.idx) THEN StepAborts ELSE StepPasses

\* Nothing follows an abort: no step, no summary, no size table
C9_AbortIsFinal ==
  pc = "aborted" =>
    /\ ~ENABLED Next
    /\ stack = << >>
    /\ sizeFile = NotWritten
    /\ \A n \in 1..Len(out) : out[n].tag \notin { "total", "header", "file" }

\* C9: in an exported ordinary class, a member of a kind outside the rule
\* table aborts the run when it lies in a public section and is ignored
\* otherwise; once the run has aborted no step is taken, so no later cursor is
\* examined, nothing more is recorded, and neither the summary nor the size
\* table is produced.
C9_UnknownKindFailsClosed == [][C9_UnknownKindStep]_vars /\ []C9_AbortIsFinal

\* C9 witness: a run aborted on a public using-declaration that is followed
\* by a public inline method; nothing was recorded and no summary printed.
C9_Witness ==
  /\ pc = "aborted"
  /\ raised = "Unsupported"
  /\ COUNT = 0
  /\ \A n \in 1..Len(out) : out[n].tag /= "total"
  /\ \E p \in AllPaths :
       LET node == NodeAt(tu, p)
       IN /\ IsOrdinaryClass(node)
          /\ ALL_TYPES = << JoinFqn(SpelledPath(p)) >>
          /\ \E k \in 1..(Len(node.children) - 1) :
               /\ node.children[k].kind = "USING_DECLARATION"
               /\ PublicAt(node, k)
               /\ IsPublicInlineMethod(node, k + 1)
               /\ \A h \in 1..(k - 1) :
                    node.children[h].kind \in { "VISIBILITY_ATTR", "CXX_ACCESS_SPEC_DECL" }

\* C10 as stated: a completed run that counted violations ends with another
\* exit status than a completed run that counted none (whose status is 0).
C10_ExitStatusTellsViolations ==
  pc = "done" => (exitCode = 0 <=> COUNT = 0)

\* C10 amended: the run ends in one of two exit outcomes: it completes and
\* exits with status 0 whatever COUNT is, or it aborts on an uncaught
\* exception and exits with a non-zero status without a summary; completed
\* runs with and without violations differ by the printed total only.
C10_ExitOutcomes ==
  /\ pc = "main" => exitCode = NotExited
  /\ pc = "done" =>
       /\ exitCode = 0
       /\ raised = "none"
       /\ \E n \in 1..Len(out) : out[n] = TotalLine(COUNT)
  /\ pc = "aborted" =>
       /\ exitCode = 1
       /\ raised /= "none"
       /\ \A n \in 1..Len(out) : out[n].tag /= "total"

\* C10 witness: a completed run that counted violations and exited with 0.
C10_Witness ==
  /\ pc = "done"
  /\ COUNT > 0
  /\ exitCode = 0
  /\ Len(ProblemLines(out)) = COUNT


\* The problem lines are in the order of their fqn texts
InFqnOrder(lines) ==
  \A j, k \in 1..Len(lines) : j < k => ~TextLess(lines[k].text, lines[j].text)

\* C11 as stated: in a completed run the violations are printed in the
\* order of their fqn texts, whatever the order the traversal met them in.
C11_SortedByFqn == pc = "done" => InFqnOrder(ProblemLines(out))

\* A step keeps the problem lines printed so far and adds at most one, after
\* them; the end of the script adds none
C11_AppendStep ==
  LET before == ProblemLines(out)
      after == ProblemLines(out')
  IN /\ Len(after) \in { Len(before), Len(before) + 1 }
     /\ SubSeq(after, 1, Len(before)) = before
     /\ Len(after) = COUNT'
     /\ pc' = "done" => /\ after = before
                        /\ SubSeq(out', 1, Len(out)) = out

\* C11 amended: the violations are printed in the order the traversal meets
\* them: each one is printed when it is recorded, after every line printed
\* before, and the end of the script prints the lines after them without
\* reordering; the order of the fqn texts plays no role.
C11_TraversalOrder == [][C11_AppendStep]_vars

\* C11 witness: a completed run whose violations are not in the order of
\* their fqn texts.
C11_Witness ==
  /\ pc = "done"
  /\ COUNT >= 2
  /\ ~InFqnOrder(ProblemLines(out))

\* The file list of the final report
FileList == SelectSeq(out, LAMBDA l : l.tag = "file")

\* C12: at every point of a run COUNT is the number of problems reported so
\* far and the length of FILES; in the report of a completed run the file
\* list is sorted, has no duplicate, and holds a file if and only if a
\* violation was recorded with it.
C12_CountAndFiles ==
  /\ COUNT = Len(ProblemLines(out))
  /\ COUNT = Len(FILES)
  /\ pc /= "done" => FileList = << >>
  /\ pc = "done" =>
       /\ \A j, k \in 1..Len(FileList) : j < k => TextLess(FileList[j].text, FileList[k].text)
       /\ { FileList[k].text : k \in 1..Len(FileList) } = { FILES[k] : k \in 1..Len(FILES) }
       /\ \A k \in 1..Len(FILES) : FILES[k] \in { NormPath(f) : f \in { FileA, FileA2, FileB } }

\* C12 witness: a completed run with three violations in two files, two of
\* them in the same file, whose file list is not in the order of recording.
C12_Witness ==
  /\ pc = "done"
  /\ COUNT = 3
  /\ Len(FileList) = 2
  /\ FILES[1] = FILES[2]
  /\ FileList[1].text = FILES[3]
  /\ FileList[2].text = FILES[1]

\* The classes and structs that the traversal of a completed run enters: those
\* declared in an explored namespace, and the classes nested in a public
\* section of an exported class that the traversal enters
RECURSIVE IsMet(_)
IsMet(p) ==
  /\ Len(p) >= 2
  /\ IsClassNode(NodeAt(tu, p))
  /\ LET parent == SubSeq(p, 1, Len(p) - 1)
     IN \/ parent \in ExploredNamespacePaths
        \/ /\ NodeAt(tu, p).kind = "CLASS_DECL"
           /\ IsClassNode(NodeAt(tu, parent))
           /\ IsExported(NodeAt(tu, parent))
           /\ PublicAt(NodeAt(tu, parent), p[Len(p)])
           /\ IsMet(parent)

ExportedMetPaths == { p \in AllPaths : IsMet(p) /\ IsExported(NodeAt(tu, p)) }

\* The fqn texts of the exported classes met, sorted, each one once
ExpectedTypes ==
  Sorted(SetToSeq({ JoinFqn(SpelledPath(p)) : p \in ExportedMetPaths }))

\* C13 as stated: when the size table is written by a completed run, it holds
\* exactly one statement per fqn of an exported class or struct met by the
\* traversal, in the order of the fqn texts, none for a skipped class, and
\* writing it records no violation.
C13_OneStatementPerType ==
  (pc = "done" /\ sizeFile /= NotWritten) =>
    /\ Len(sizeFile) = Len(ExpectedTypes)
    /\ \A k \in 1..Len(sizeFile) :
         /\ sizeFile[k].printf = ExpectedTypes[k]
         /\ sizeFile[k].sizeof = ExpectedTypes[k]
    /\ COUNT = Len(ProblemLines(out))

\* C14: two runs of the script on the same declaration tree end alike: both
\* complete or both abort on the same exception, with the same exit status,
\* the same lines printed (violations, total, file list), the same COUNT and
\* FILES, and the same size table whenever both write it.
C14_SameOutcome ==
  (firstRun /= NoRun /\ pc \in { "done", "aborted" }) =>
    /\ pc = firstRun.pc
    /\ raised = firstRun.raised
    /\ exitCode = firstRun.exitCode
    /\ out = firstRun.out
    /\ COUNT = firstRun.COUNT
    /\ FILES = firstRun.FILES
    /\ (sizeFile /= NotWritten /\ firstRun.sizeFile /= NotWritten)
         => sizeFile = firstRun.sizeFile

\* C14 witness: the second of two completed runs that recorded violations
\* in two files and wrote a size table of two types.
C14_Witness ==
  /\ firstRun.pc = "done"
  /\ pc = "done"
  /\ COUNT >= 2
  /\ Len(FileList) = 2
  /\ Len(sizeFile) = 2
  /\ sizeFile = firstRun.sizeFile
  /\ sizeFile[1] /= sizeFile[2]

\* A root-level namespace block with the top-level name
IsTopLevelBlock(k) ==
  tu.children[k].kind = "NAMESPACE" /\ tu.children[k].spelling = tOrthanc

\* Every cursor under examination lies in a root-level block of that name,
\* every type recorded is an exported class met in such a block, and a
\* completed run has recorded every one of them
C15_InsideTopLevelBlocks ==
  /\ \A n \in 1..Len(stack) : IsTopLevelBlock(stack[n].path[1])
  /\ \A k \in 1..Len(ALL_TYPES) :
       \E p \in ExportedMetPaths : ALL_TYPES[k] = JoinFqn(SpelledPath(p))
  /\ pc = "done" =>
       \A p \in ExportedMetPaths : Occurs(ALL_TYPES, JoinFqn(SpelledPath(p)))

\* The main loop enters every root-level block of that name and nothing
\* else; violations, files, types and aborts come from steps inside a block
C15_Step ==
  /\ (pc = "main" /\ stack = << >> /\ rootIdx <= Len(tu.children)) =>
       IF IsTopLevelBlock(rootIdx)
       THEN /\ Len(stack') = 1
            /\ stack'[1].path = << rootIdx >>
            /\ stack'[1].fqn = << tOrthanc >>
       ELSE /\ stack' = << >>
            /\ rootIdx' = rootIdx + 1
  /\ ( \/ COUNT' /= COUNT
       \/ FILES' /= FILES
       \/ ALL_TYPES' /= ALL_TYPES
       \/ ProblemLines(out') /= ProblemLines(out)
       \/ pc' = "aborted" ) =>
       /\ InCall
       /\ IsTopLevelBlock(Top.path[1])

\* C15: only the declarations under a root-level namespace named Orthanc are
\* examined: the main loop explores every such block, and no declaration
\* outside them adds a violation, a file, a type or aborts the run.
C15_OnlyTopLevelNamespace == []C15_InsideTopLevelBlocks /\ [][C15_Step]_vars

\* C15 witness: a completed run on a tree whose first root is a namespace of
\* another name holding classes, and whose second root is an Orthanc block
\* with an exported class; the types recorded are those of the block only.
C15_Witness ==
  /\ pc = "done"
  /\ Len(tu.children) = 2
  /\ tu.children[1].kind = "NAMESPACE"
  /\ ~IsTopLevelBlock(1)
  /\ \E k \in 1..Len(tu.children[1].children) :
       IsClassNode(tu.children[1].children[k]) /\ IsExported(tu.children[1].children[k])
  /\ IsTopLevelBlock(2)
  /\ COUNT > 0
  /\ Len(ALL_TYPES) = 1
  /\ \A n \in 1..Len(ProblemLines(out)) : ProblemLines(out)[n].text = ALL_TYPES[1]

\* The step of ExploreNamespace is on a free function
AtFreeFunction ==
  /\ InCall
  /\ Top.phase = "namespace"
  /\ Top.idx <= Len(TopNode.children)
  /\ TopNode.children[Top.idx].kind = "FUNCTION_DECL"

\* The function carries the default visibility and has a body
IsExportedInlineFunction(f) ==
  /\ \E k \in 1..Len(f.children) :
       f.children[k].kind = "VISIBILITY_ATTR" /\ f.children[k].spelling = tDefault
  /\ HasBody(f)

\* A free function records a violation exactly when it is exported and has a
\* body, and then exactly one
C16_FunctionCounted ==
  AtFreeFunction =>
    IF IsExportedInlineFunction(TopNode.children[Top.idx])
    THEN /\ COUNT' = COUNT + 1
         /\ Len(FILES') = Len(FILES) + 1
         /\ Len(out') = Len(out) + 1
         /\ out'[Len(out')].tag = "problem"
         /\ out'[Len(out')].message = FunctionWithImplementation
         /\ SubSeq(out', 1, Len(out)) = out
    ELSE UNCHANGED << COUNT, FILES, out >>

\* The violation carries the name and the file of the function
C16_FunctionIdentified ==
  (AtFreeFunction /\ IsExportedInlineFunction(TopNode.children[Top.idx])) =>
    LET f == TopNode.children[Top.idx]
    IN /\ out'[Len(out')].name = f.spelling
       /\ FILES'[Len(FILES')] = NormPath(f.file)

\* C16 as stated: a free function of an explored namespace records a
\* violation if and only if it has a default-visibility attribute and a
\* compound-statement body; it is then one 'Exported public function with an
\* implementation' violation that carries the name and the source file of
\* the function itself, not those of one of its children.
C16_FreeFunctionViolation == [][C16_FunctionCounted /\ C16_FunctionIdentified]_vars

\* A member: a child that is neither an attribute, an access specifier nor a
\* base specifier
IsMember(i) ==
  i.kind \notin { "VISIBILITY_ATTR", "CXX_ACCESS_SPEC_DECL", "CXX_BASE_SPECIFIER" }

\* In every pending scan, isPublic is the section of the child under the loop
C17_SectionTracked ==
  \A n \in 1..Len(stack) :
    stack[n].phase \in { "interface", "ordinary" } =>
      stack[n].isPublic = PublicAt(NodeAt(tu, stack[n].path), stack[n].idx)

\* A member of a non-public section changes nothing in the interface scan,
\* and nothing in the ordinary scan unless it is a static variable
C17_NonPublicStep ==
  ( /\ InCall
    /\ Top.phase \in { "interface", "ordinary" }
    /\ Top.idx <= Len(TopNode.children)
    /\ IsMember(TopNode.children[Top.idx])
    /\ ~PublicAt(TopNode, Top.idx)
    /\ (Top.phase = "ordinary" => TopNode.children[Top.idx].kind /= "VAR_DECL") )
    => /\ stack' = ReplaceTop([ Top EXCEPT !.idx = Top.idx + 1 ])
       /\ UNCHANGED << pc, FILES, COUNT, ALL_TYPES, out, raised >>

TemplateNotice(path, i) ==
  Line("notice",
       "Detected a template function (this is fine, but avoid it as much as possible)",
       JoinFqn(Append(SpelledPath(path), i.spelling)), << >>, 0)

\* The violation printed for the function template i of the class at path
TemplateViolation(path, i) ==
  Line("problem", "Exported template function without an inline implementation",
       JoinFqn(SpelledPath(path)), i.spelling, 0)

\* The step of the ordinary scan on a function template
C18_TemplateStep ==
  AtOrdinaryChild({ "FUNCTION_TEMPLATE" }) =>
    LET i == TopNode.children[Top.idx]
    IN IF ~PublicAt(TopNode, Top.idx) THEN StepPasses
       ELSE /\ pc' = "main"
            /\ stack' = ReplaceTop([ Top EXCEPT !.idx = Top.idx + 1 ])
            /\ UNCHANGED ALL_TYPES
            /\ IF HasBody(i)
               THEN /\ out' = Append(out, TemplateNotice(Top.path, i))
                    /\ UNCHANGED << COUNT, FILES >>
               ELSE /\ out' = out \o << TemplateNotice(Top.path, i),
                                        TemplateViolation(Top.path, i) >>
                    /\ COUNT' = COUNT + 1
                    /\ FILES' = Append(FILES, NormPath(i.file))

\* C18: in an exported ordinary class a public function template always
\* prints the notice; it records an 'Exported template function without an
\* inline implementation' violation if and only if it has no
\* compound-statement body; a function template of a non-public section
\* prints and records nothing.
C18_FunctionTemplates == [][C18_TemplateStep]_vars

\* C18 witness: a completed run on a class with two public function
\* templates, one with a body and one without: two notices, one violation.
C18_Witness ==
  /\ pc = "done"
  /\ COUNT = 1
  /\ Len(SelectSeq(out, LAMBDA l : l.tag = "notice")) = 2
  /\ Len(ProblemLines(out)) = 1
  /\ ProblemLines(out)[1].message = TemplateWithoutImplementation
  /\ \E p \in AllPaths :
       LET node == NodeAt(tu, p)
       IN /\ IsOrdinaryClass(node)
          /\ \E j, k \in 1..Len(node.children) :
               /\ node.children[j].kind = "FUNCTION_TEMPLATE" /\ HasBody(node.children[j])
               /\ node.children[k].kind = "FUNCTION_TEMPLATE" /\ ~HasBody(node.children[k])
               /\ PublicAt(node, j) /\ PublicAt(node, k)

\* The step calls ExploreClass on the child under the loop, with the fqn of
\* the class extended by the name of the child, and records nothing itself
StepRecurses ==
  /\ pc' = "main"
  /\ Len(stack') = Len(stack) + 1
  /\ stack'[Len(stack')].path = Append(Top.path, Top.idx)
  /\ stack'[Len(stack')].fqn = Append(SpelledPath(Top.path), TopNode.children[Top.idx].spelling)
  /\ stack'[Len(stack')].phase = "enter"
  /\ stack'[Len(stack)].idx = Top.idx + 1
  /\ UNCHANGED << ALL_TYPES, COUNT, FILES, out, sizeFile, raised >>

\* The step of the ordinary scan on a nested struct of a public section
C19_NestedStructStep ==
  (AtOrdinaryChild({ "STRUCT_DECL" }) /\ PublicAt(TopNode, Top.idx)) => StepRecurses

\* C19 as stated: in an exported ordinary class a nested struct of a public
\* section is checked by a recursive call under the fqn of the class extended
\* by its name, as a nested class is; it does not abort the run.
C19_NestedStructChecked == [][C19_NestedStructStep]_vars

\* The step of the interface scan on a nested struct of a public section
C20_NestedStructStep ==
  ( /\ InCall
    /\ Top.phase = "interface"
    /\ Top.idx <= Len(TopNode.children)
    /\ TopNode.children[Top.idx].kind = "STRUCT_DECL"
    /\ PublicAt(TopNode, Top.idx) )
    => /\ StepRecurses
       /\ stack'[Len(stack)].abstract = Top.abstract

\* C20 as stated: in an exported class named as an interface a public nested
\* struct leaves the classification of the class as it is and is checked by
\* a recursive call, as a public nested class, typedef or enum is.
C20_NestedStructInInterface == [][C20_NestedStructStep]_vars

\* The step of the interface scan is on a child of one of the kinds
AtInterfaceChild(kinds) ==
  /\ InCall
  /\ Top.phase = "interface"
  /\ Top.idx <= Len(TopNode.children)
  /\ TopNode.children[Top.idx].kind \in kinds

\* The step of the interface scan goes on without recording or printing
\* anything; the scanning call stays pending, on the next sibling
InterfaceScanGoesOn ==
  /\ pc' = "main"
  /\ raised' = "none"
  /\ Len(stack') >= Len(stack)
  /\ stack'[Len(stack)].phase = "interface"
  /\ stack'[Len(stack)].idx = Top.idx + 1
  /\ UNCHANGED << ALL_TYPES, COUNT, FILES, out, sizeFile >>

\* The flag abstract of the scanning call before and after the step
StillAbstract == stack'[Len(stack)].abstract
Invalidated == Top.abstract /\ ~stack'[Len(stack)].abstract
Kept == stack'[Len(stack)].abstract = Top.abstract

\* The body of the declaration holds at least one statement
HasStatement(node) ==
  \E k \in 1..Len(node.children) :
    node.children[k].kind = "COMPOUND_STMT" /\ node.children[k].children /= << >>

\* The step on a public destructor, as stated
C21_DestructorStepAsStated ==
  (AtInterfaceChild({ "DESTRUCTOR" }) /\ PublicAt(TopNode, Top.idx)) =>
    LET i == TopNode.children[Top.idx]
    IN /\ InterfaceScanGoesOn
       /\ Invalidated => (~i.virtual \/ HasStatement(i))
       /\ (i.virtual /\ i.children = << >>) => Kept

\* C21 as stated: in an exported class named as an interface a public
\* destructor invalidates the classification only if it is not virtual or
\* has a body with at least one statement; a public virtual destructor
\* declared without a body leaves the classification as it is.
C21_DestructorWithoutBodyAccepted == [][C21_DestructorStepAsStated]_vars

\* The step on a public destructor
C21_DestructorStep ==
  (AtInterfaceChild({ "DESTRUCTOR" }) /\ PublicAt(TopNode, Top.idx)) =>
    LET i == TopNode.children[Top.idx]
    IN /\ InterfaceScanGoesOn
       /\ StillAbstract = (Top.abstract /\ i.virtual /\ HasEmptyBody(i))

\* C21 amended: in an exported class named as an interface a public
\* destructor leaves the classification as it is if and only if it is
\* virtual and its only child is a compound statement without statements; a
\* public destructor that is not virtual, that has a body with a statement,
\* or that is declared without a body invalidates the classification.
C21_DestructorMustBeEmptyInline == [][C21_DestructorStep]_vars

\* C21 witness: a completed run reported as not pure an interface-named
\* class whose only member is a public virtual destructor without a body.
C21_Witness ==
  /\ pc = "done"
  /\ COUNT = 1
  /\ ProblemLines(out)[1].message = NotPureInterface
  /\ \E p \in AllPaths :
       LET node == NodeAt(tu, p)
       IN /\ IsInterfaceNamed(node)
          /\ IsExported(node)
          /\ ProblemLines(out)[1].text = JoinFqn(SpelledPath(p))
          /\ \E k \in 1..Len(node.children) :
               /\ node.children[k].kind = "DESTRUCTOR"
               /\ node.children[k].virtual
               /\ node.children[k].children = << >>
               /\ PublicAt(node, k)
               /\ \A h \in 1..Len(node.children) :
                    h /= k => ~IsMember(node.children[h])

\* The step on a public method
C22_MethodStep ==
  (AtInterfaceChild({ "CXX_METHOD" }) /\ PublicAt(TopNode, Top.idx)) =>
    LET i == TopNode.children[Top.idx]
    IN /\ InterfaceScanGoesOn
       /\ StillAbstract = (Top.abstract /\ (i.pure \/ (i.static /\ ~HasBody(i))))

\* C22: in an exported class named as an interface a public method that is
\* not pure virtual invalidates the classification unless it is a static
\* method without a compound-statement body: a public static method with a
\* body, even one without statements, invalidates it, and so does a public
\* method that is neither static nor pure, with or without a body.
C22_NonPureMethods == [][C22_MethodStep]_vars

\* C22 witness: a completed run reported as not pure an interface-named
\* class whose only member is a public static method with an empty body.
C22_Witness ==
  /\ pc = "done"
  /\ COUNT = 1
  /\ ProblemLines(out)[1].message = NotPureInterface
  /\ \E p \in AllPaths :
       LET node == NodeAt(tu, p)
       IN /\ IsInterfaceNamed(node)
          /\ IsExported(node)
          /\ ProblemLines(out)[1].text = JoinFqn(SpelledPath(p))
          /\ \E k \in 1..Len(node.children) :
               /\ node.children[k].kind = "CXX_METHOD"
               /\ node.children[k].static
               /\ HasEmptyBody(node.children[k])
               /\ PublicAt(node, k)
               /\ \A h \in 1..Len(node.children) :
                    h /= k => node.children[h].kind \in { "VISIBILITY_ATTR", "CXX_ACCESS_SPEC_DECL" }

\* The step on a base specifier, in any section
C23_BaseStep ==
  AtInterfaceChild({ "CXX_BASE_SPECIFIER" }) =>
    LET i == TopNode.children[Top.idx]
    IN /\ InterfaceScanGoesOn
       /\ Len(stack') = Len(stack)
       /\ StillAbstract = (Top.abstract /\ i.spelling = tNoncopyable)

\* C23: in an exported class named as an interface every base specifier
\* whose name is not boost::noncopyable invalidates the classification,
\* whatever the access section in force and even if the base is named as an
\* interface itself; a base named boost::noncopyable never invalidates it.
C23_BaseSpecifiers == [][C23_BaseStep]_vars

\* C23 witness: a completed run reported as not pure an interface-named
\* class that has nothing but a base named as an interface, met while the
\* section in force is not public.
C23_Witness ==
  /\ pc = "done"
  /\ COUNT = 1
  /\ ProblemLines(out)[1].message = NotPureInterface
  /\ \E p \in AllPaths :
       LET node == NodeAt(tu, p)
       IN /\ IsInterfaceNamed(node)
          /\ IsExported(node)
          /\ ProblemLines(out)[1].text = JoinFqn(SpelledPath(p))
          /\ \E k \in 1..Len(node.children) :
               /\ node.children[k].kind = "CXX_BASE_SPECIFIER"
               /\ IsInterfaceNamed([ node EXCEPT !.spelling = node.children[k].spelling ])
               /\ ~PublicAt(node, k)
               /\ \A h \in 1..Len(node.children) :
                    h /= k => node.children[h].kind = "VISIBILITY_ATTR"

\* The step of the interface scan on a public nested class calls ExploreClass
\* on it and keeps the flag, whatever the flag is; and no step changes a
\* pending call other than the running one
C24_NestedClassStep ==
  /\ (AtInterfaceChild({ "CLASS_DECL" }) /\ PublicAt(TopNode, Top.idx)) =>
       /\ StepRecurses
       /\ Kept
  /\ \A n \in 1..(Len(stack) - 1) : Len(stack') >= n => stack'[n] = stack[n]

\* C24: the classification of a nested class never changes that of the
\* enclosing interface-named class: the call on a public nested class leaves
\* the flag abstract of the parent as it was, whatever the nested class
\* records, and every public nested class is explored, whether or not the
\* parent has already failed at an earlier sibling.
C24_NestedClassLeavesParent == [][C24_NestedClassStep]_vars

\* C24 witness: a completed run found an interface-named class pure and
\* reported the interface-named class nested in its public section as not
\* pure.
C24_Witness ==
  /\ pc = "done"
  /\ COUNT = 1
  /\ ProblemLines(out)[1].message = NotPureInterface
  /\ \E p \in AllPaths :
       LET node == NodeAt(tu, p)
       IN /\ IsInterfaceNamed(node)
          /\ IsExported(node)
          /\ \E n \in 1..Len(out) : out[n] = PureInterfaceLine(SpelledPath(p))
          /\ \E k \in 1..Len(node.children) :
               /\ IsInterfaceNamed(node.children[k])
               /\ IsExported(node.children[k])
               /\ PublicAt(node, k)
               /\ ProblemLines(out)[1].text = JoinFqn(SpelledPath(Append(p, k)))

\* The step of the ordinary scan on a static variable of a non-public section
C25_NonPublicStaticVariableStep ==
  (AtOrdinaryChild({ "VAR_DECL" }) /\ ~PublicAt(TopNode, Top.idx)) => StepPasses

\* C25 as stated: a static variable in a private or protected section of an
\* exported ordinary class records no violation and does not abort the run;
\* the rule on static variables applies in a public section only.
C25_NonPublicStaticVariableIgnored == [][C25_NonPublicStaticVariableStep]_vars

\* ExploreClass is entered on an exported definition
AtExportedClassEntry ==
  /\ InCall
  /\ Top.phase = "enter"
  /\ IsClassNode(TopNode)
  /\ IsExported(TopNode)

\* The entry chooses the ordinary scan, with the implicit section of the kind
EntersOrdinaryScan ==
  /\ pc' = "main"
  /\ raised' = "none"
  /\ Len(stack') = Len(stack)
  /\ stack'[Len(stack)].phase = "ordinary"
  /\ stack'[Len(stack)].idx = 1
  /\ stack'[Len(stack)].isPublic = (TopNode.kind = "STRUCT_DECL")
  /\ ALL_TYPES' = Append(ALL_TYPES, JoinFqn(SpelledPath(Top.path)))
  /\ UNCHANGED << COUNT, FILES, out >>

\* A struct, or a class whose name of two characters or more does not start
\* with I followed by an uppercase letter
C26_OutsidePattern(node) ==
  \/ node.kind = "STRUCT_DECL"
  \/ /\ node.kind = "CLASS_DECL"
     /\ Len(node.spelling) >= 2
     /\ ~(node.spelling[1] = "I" /\ Occurs(Upper, node.spelling[2]))

C26_EntryStep ==
  (AtExportedClassEntry /\ C26_OutsidePattern(TopNode)) => EntersOrdinaryScan

\* The interface scan runs on classes of the pattern only, and so does every
\* Not-a-pure-interface violation
C26_InterfaceScanOnPattern ==
  /\ \A n \in 1..Len(stack) :
       stack[n].phase = "interface" => IsInterfaceNamed(NodeAt(tu, stack[n].path))
  /\ \A n \in 1..Len(out) :
       (out[n].tag = "problem" /\ out[n].message = NotPureInterface) =>
         \E p \in AllPaths : /\ IsInterfaceNamed(NodeAt(tu, p))
                             /\ out[n].text = JoinFqn(SpelledPath(p))
                             /\ out[n].name = NodeAt(tu, p).spelling

\* C26: the interface classification applies to a class whose name starts
\* with I followed by an uppercase letter only: an exported struct of such a
\* name and an exported class whose second character is not uppercase are
\* checked by the ordinary scan, starting public for the struct and private
\* for the class, and never record a Not-a-pure-interface violation.
C26_InterfacePatternOnly == []C26_InterfaceScanOnPattern /\ [][C26_EntryStep]_vars

\* C26 witness: a completed run on an exported struct named IPod whose
\* inline method in the implicit section was reported by the ordinary scan.
C26_Witness ==
  /\ pc = "done"
  /\ COUNT = 1
  /\ ProblemLines(out)[1].message = MethodWithImplementation
  /\ \E p \in AllPaths :
       LET node == NodeAt(tu, p)
       IN /\ node.kind = "STRUCT_DECL"
          /\ node.spelling = tIPod
          /\ IsExported(node)
          /\ ProblemLines(out)[1].text = JoinFqn(SpelledPath(p))
          /\ \E k \in 1..Len(node.children) :
               /\ IsPublicInlineMethod(node, k)
               /\ \A h \in 1..(k - 1) : node.children[h].kind /= "CXX_ACCESS_SPEC_DECL"

\* The entry of ExploreClass on an exported class with a name of fewer than
\* two characters
C27_ShortNameStep ==
  ( /\ AtExportedClassEntry
    /\ TopNode.kind = "CLASS_DECL"
    /\ Len(TopNode.spelling) < 2 ) => EntersOrdinaryScan

\* C27 as stated: for an exported class definition whose name has fewer than
\* two characters (an anonymous class, a class named I) the test of the
\* interface name completes and answers no: the class is checked by the
\* ordinary scan and the run does not fail on the test.
C27_ShortNameIsOrdinary == [][C27_ShortNameStep]_vars

\* A member that the ordinary scan refuses in a public section: a static
\* variable, a friend that is not whitelisted, a member of a kind outside
\* the rules
IsRefusedWhenPublic(i) ==
  \/ i.kind = "VAR_DECL"
  \/ i.kind = "FRIEND_DECL" /\ ~IsWhitelistedFriend(i)
  \/ i.kind \notin RuleTableKinds

\* The step of either scan on such a member of a public section
C28_RefusedMemberStep ==
  ( /\ InCall
    /\ Top.phase \in { "interface", "ordinary" }
    /\ Top.idx <= Len(TopNode.children)
    /\ IsRefusedWhenPublic(TopNode.children[Top.idx])
    /\ PublicAt(TopNode, Top.idx) )
    => IF Top.phase = "interface"
       THEN /\ InterfaceScanGoesOn
            /\ Len(stack') = Len(stack)
            /\ ~StillAbstract
       ELSE StepAborts

\* The interface scan ends by one recoverable violation when the flag is
\* down, and never by an abort
C28_VerdictStep ==
  (InCall /\ Top.phase = "interface" /\ Top.idx > Len(TopNode.children)) =>
    /\ pc' = "main"
    /\ raised' = "none"
    /\ stack' = Caller
    /\ COUNT' = IF Top.abstract THEN COUNT ELSE COUNT + 1
    /\ ~Top.abstract =>
         out' = Append(out, Line("problem", NotPureInterface,
                                 JoinFqn(SpelledPath(Top.path)), TopNode.spelling, 0))

\* C28: the scan of the own members of an exported class named as an
\* interface never aborts the run: a public static variable, a public friend
\* that is not whitelisted or a public member of a kind outside the rules
\* only turns the classification into the one recoverable
\* Not-a-pure-interface violation, whereas the same member in a public
\* section of an ordinary class aborts the run.
C28_InterfaceScanNeverAborts == [][C28_RefusedMemberStep /\ C28_VerdictStep]_vars

\* C28 witness: a completed run with one Not-a-pure-interface violation on
\* an interface-named class whose public section holds a static variable
\* and a friend that is not whitelisted.
C28_Witness ==
  /\ pc = "done"
  /\ COUNT = 1
  /\ ProblemLines(out)[1].message = NotPureInterface
  /\ \E p \in AllPaths :
       LET node == NodeAt(tu, p)
       IN /\ IsInterfaceNamed(node)
          /\ IsExported(node)
          /\ ProblemLines(out)[1].text = JoinFqn(SpelledPath(p))
          /\ \E j, k \in 1..Len(node.children) :
               /\ node.children[j].kind = "VAR_DECL"
               /\ node.children[k].kind = "FRIEND_DECL"
               /\ ~IsWhitelistedFriend(node.children[k])
               /\ PublicAt(node, j)
               /\ PublicAt(node, k)

\* The pending call is on a class nested in a class
IsNestedCall(frame) ==
  /\ frame.phase \in { "enter", "interface", "ordinary" }
  /\ Len(frame.path) >= 3
  /\ IsClassNode(NodeAt(tu, SubSeq(frame.path, 1, Len(frame.path) - 1)))

\* A nested class is under examination only if it lies in a public section
\* of an exported class, and past its entry only if it is exported itself;
\* a completed run has recorded one type per exported class it met
C29_NestedCalls ==
  /\ \A n \in 1..Len(stack) :
       IsNestedCall(stack[n]) =>
         LET parent == SubSeq(stack[n].path, 1, Len(stack[n].path) - 1)
         IN /\ NodeAt(tu, stack[n].path).kind = "CLASS_DECL"
            /\ IsExported(NodeAt(tu, parent))
            /\ PublicAt(NodeAt(tu, parent), stack[n].path[Len(stack[n].path)])
            /\ stack[n].phase /= "enter" => IsExported(NodeAt(tu, stack[n].path))
  /\ pc = "done" => Len(ALL_TYPES) = Cardinality(ExportedMetPaths)

\* The entry of ExploreClass on a nested class looks at the children of the
\* nested class only: without a default-visibility attribute among them the
\* call returns at once and records and prints nothing
C29_NestedEntryStep ==
  (InCall /\ Top.phase = "enter" /\ IsNestedCall(Top)) =>
    IF IsExported(TopNode)
    THEN ALL_TYPES' = Append(ALL_TYPES, JoinFqn(SpelledPath(Top.path)))
    ELSE /\ stack' = Caller
         /\ UNCHANGED << pc, ALL_TYPES, COUNT, FILES, out, raised >>

\* C29: export is decided for each class from its own children: a class
\* nested in a public section of an exported class is examined and recorded
\* in ALL_TYPES only if it has a default-visibility attribute child itself;
\* without one it is skipped without any diagnostic although its parent is
\* exported, and a class nested in a non-public section is never examined.
C29_ExportIsPerClass == []C29_NestedCalls /\ [][C29_NestedEntryStep]_vars

\* C29 witness: a completed run on an exported ordinary class whose public
\* section holds a nested class without the attribute, itself holding a
\* public inline method and a static variable: one type, no violation.
C29_Witness ==
  /\ pc = "done"
  /\ COUNT = 0
  /\ \E p \in AllPaths :
       LET node == NodeAt(tu, p)
       IN /\ IsOrdinaryClass(node)
          /\ ALL_TYPES = << JoinFqn(SpelledPath(p)) >>
          /\ \E k \in 1..Len(node.children) :
               /\ node.children[k].kind = "CLASS_DECL"
               /\ node.children[k].is_definition
               /\ ~IsExported(node.children[k])
               /\ PublicAt(node, k)
               /\ \E h \in 1..Len(node.children[k].children) :
                    IsPublicInlineMethod(node.children[k], h)
               /\ \E h \in 1..Len(node.children[k].children) :
                    node.children[k].children[h].kind = "VAR_DECL"

\* The step of ExploreNamespace on a child of a kind it has no rule for, and
\* on a nested namespace
C30_NamespaceStep ==
  (InCall /\ Top.phase = "namespace" /\ Top.idx <= Len(TopNode.children)) =>
    LET child == TopNode.children[Top.idx]
    IN /\ child.kind \notin { "NAMESPACE", "CLASS_DECL", "STRUCT_DECL", "FUNCTION_DECL" }
            => StepPasses /\ UNCHANGED raised
       /\ child.kind = "NAMESPACE" =>
            /\ pc' = "main"
            /\ Len(stack') = Len(stack) + 1
            /\ stack'[Len(stack')].phase = "namespace"
            /\ stack'[Len(stack')].path = Append(Top.path, Top.idx)
            /\ stack'[Len(stack')].fqn = Append(SpelledPath(Top.path), child.spelling)
            /\ stack'[Len(stack')].idx = 1
            /\ stack'[Len(stack)].idx = Top.idx + 1
            /\ UNCHANGED << ALL_TYPES, COUNT, FILES, out, raised >>

\* C30: in a namespace a child that is neither a namespace, a class, a
\* struct nor a function (a variable, a typedef, an enum, a function
\* template, an attribute) is ignored: it never aborts the run and never
\* changes COUNT, FILES or ALL_TYPES; a nested namespace is always explored,
\* whatever its visibility, with its name appended to the fqn.
C30_NamespaceChildren == [][C30_NamespaceStep]_vars

\* C30 witness: a completed run on an Orthanc namespace that holds a
\* variable and a nested namespace of hidden visibility, whose exported
\* class was recorded under the fqn extended by the name of that namespace
\* and reported for its inline destructor.
C30_Witness ==
  /\ pc = "done"
  /\ COUNT = 1
  /\ \E p \in ExploredNamespacePaths :
       LET node == NodeAt(tu, p)
       IN /\ Len(p) = 1
          /\ \E j, k \in 1..Len(node.children) :
               /\ node.children[j].kind = "VAR_DECL"
               /\ node.children[k].kind = "NAMESPACE"
               /\ \E h \in 1..Len(node.children[k].children) :
                    /\ node.children[k].children[h].kind = "VISIBILITY_ATTR"
                    /\ node.children[k].children[h].spelling /= tDefault
               /\ \E h \in 1..Len(node.children[k].children) :
                    /\ IsClassNode(node.children[k].children[h])
                    /\ ALL_TYPES = << JoinFqn(<< tOrthanc, node.children[k].spelling,
                                                 node.children[k].children[h].spelling >>) >>
                    /\ ProblemLines(out)[1].text = ALL_TYPES[1]
====
